---------------------------- MODULE Spec2Model ----------------------------
(***************************************************************************)
(* Model of lunchmoney-fintoc-sync: the sync pipeline of src/main.rs       *)
(* (cmd_sync_fintoc_movements), the provider fetcher of src/fintoc.rs, the *)
(* ledger client of src/lunchmoney.rs and the movement normalizer of       *)
(* src/types/fintoc.rs.                                                    *)
(*                                                                         *)
(* Text is a sequence of one-character strings, so that case conversion,   *)
(* substring search and prefix stripping are computed character by         *)
(* character.  An Amount (an f64 in the source) is held as an integer      *)
(* number of ten-thousandths, the resolution of its 4-decimal wire format; *)
(* every amount the model builds is an integer minor unit divided by 1 or  *)
(* by 100, which this representation holds exactly.                        *)
(***************************************************************************)
EXTENDS Integers, Sequences, FiniteSets, TLC

(***************************************************************************)
(* Option<T>                                                               *)
(***************************************************************************)
None == [some |-> FALSE]

Some(x) == [some |-> TRUE, val |-> x]

(***************************************************************************)
(* Text helpers (str::to_uppercase, str::to_lowercase, str::contains)      *)
(***************************************************************************)
LowerLetters ==
    <<"a","b","c","d","e","f","g","h","i","j","k","l","m",
      "n","o","p","q","r","s","t","u","v","w","x","y","z">>

UpperLetters ==
    <<"A","B","C","D","E","F","G","H","I","J","K","L","M",
      "N","O","P","Q","R","S","T","U","V","W","X","Y","Z">>

UpperChar(c) ==
    IF \E i \in 1..Len(LowerLetters) : LowerLetters[i] = c
    THEN UpperLetters[CHOOSE i \in 1..Len(LowerLetters) : LowerLetters[i] = c]
    ELSE c

LowerChar(c) ==
    IF \E i \in 1..Len(UpperLetters) : UpperLetters[i] = c
    THEN LowerLetters[CHOOSE i \in 1..Len(UpperLetters) : UpperLetters[i] = c]
    ELSE c

to_uppercase(s) == [i \in 1..Len(s) |-> UpperChar(s[i])]

to_lowercase(s) == [i \in 1..Len(s) |-> LowerChar(s[i])]

\* str::contains: the needle occurs as a contiguous run of the haystack
contains(hay, needle) ==
    \E i \in 1..(Len(hay) - Len(needle) + 1) :
        SubSeq(hay, i, i + Len(needle) - 1) = needle

\* the literal "already exists" of insert_single_transaction
ALREADY_EXISTS ==
    <<"a","l","r","e","a","d","y"," ","e","x","i","s","t","s">>

(***************************************************************************)
(* Currency codes                                                          *)
(***************************************************************************)
CLP == <<"C","L","P">>

USD == <<"U","S","D">>

EUR == <<"E","U","R">>

GBP == <<"G","B","P">>

\* rusty_money::iso::find: an exact, case-sensitive lookup of the ISO code.
\* ISO_CODES is the part of its table that the model's inputs touch.
ISO_CODES == {CLP, USD, EUR, GBP}

iso_find(code) == IF code \in ISO_CODES THEN Some(code) ELSE None

(***************************************************************************)
(* Amount(f64), held in ten-thousandths                                    *)
(***************************************************************************)
AMOUNT_UNIT == 10000

\* Amount(raw as f64 / divisor), divisor 1 or 100
Amount(raw, divisor) == raw * (AMOUNT_UNIT \div divisor)


(***************************************************************************)
(* Movement normalizer (src/types/fintoc.rs)                               *)
(***************************************************************************)
\* the alternatives of the regex of clean_description, in order; the last
\* one ends in ".", which matches any one character but a line feed
PREFIX_ALTERNATIVES ==
    << <<"C","O","M","P","R","A"," ","I","N","T","E","R","N","A","C","I","O","N","A","L">>,
       <<"C","O","M","P","R","A"," ","N","A","C","I","O","N","A","L">>,
       <<"P","A","G","O"," ","R","E","C","U","R","R","E","N","T","E">>,
       <<"C","O","M","P","R","A"," ","I","N","T","E","R",".">> >>

\* the characters the model's texts hold that the regex class \s matches
WHITESPACE == {" ", "\t", "\n"}

\* whether alternative alt matches text at its start, case-insensitively
\* ((?i)), a "." of the alternative standing for any character but "\n"
AlternativeMatches(alt, text) ==
    /\ Len(text) >= Len(alt)
    /\ \A i \in 1..Len(alt) :
          IF alt[i] = "."
          THEN text[i] # "\n"
          ELSE UpperChar(text[i]) = alt[i]

\* length of the match of ^(?i)(...|...)\s at the start of text, 0 if none:
\* the first alternative, in order, that is followed by a \s character
PrefixMatchLen(text) ==
    LET hits == {k \in 1..Len(PREFIX_ALTERNATIVES) :
                    /\ AlternativeMatches(PREFIX_ALTERNATIVES[k], text)
                    /\ Len(text) > Len(PREFIX_ALTERNATIVES[k])
                    /\ text[Len(PREFIX_ALTERNATIVES[k]) + 1] \in WHITESPACE}
    IN  IF hits = {} THEN 0
        ELSE Len(PREFIX_ALTERNATIVES[CHOOSE k \in hits : \A j \in hits : k <= j]) + 1

\* Movement::clean_description: re.replace(&self.description, "")
clean_description(m) ==
    LET n == PrefixMatchLen(m.description)
    IN  IF n = 0 THEN m.description
        ELSE SubSeq(m.description, n + 1, Len(m.description))

\* a currency match whose "_" arm falls back to the divisor 1
CurrencyDivisor_DefaultOne(currency) ==
    LET code == to_uppercase(currency)
    IN  IF code = USD THEN 100
        ELSE IF code = EUR THEN 100
        ELSE 1

\* the divisor of the currency match of to_lunchmoney_transaction and of
\* fetch_fintoc_balance: 1 for CLP, 100 for USD and EUR, 0 for "_"
CurrencyDivisor(currency) ==
    LET code == to_uppercase(currency)
    IN  IF code = CLP THEN 1
        ELSE IF code = USD THEN 100
        ELSE IF code = EUR THEN 100
        ELSE 0

\* format!("{} ({})", account.holder_name, institution.name)
PayeeOfAccount(account) ==
    IF account.institution.some
    THEN account.holder_name \o <<" ", "(">> \o account.institution.val.name \o <<")">>
    ELSE account.holder_name

\* a payee match that takes the recipient only for a negative amount
Payee_SenderAtZero(m) ==
    IF m.movement_type = "transfer"
    THEN LET payee == IF m.amount >= 0 THEN m.sender_account
                      ELSE m.recipient_account
         IN  IF payee.some THEN PayeeOfAccount(payee.val)
             ELSE clean_description(m)
    ELSE clean_description(m)

\* the payee match of to_lunchmoney_transaction
Payee(m) ==
    IF m.movement_type = "transfer"
    THEN LET payee == IF m.amount > 0 THEN m.sender_account
                      ELSE m.recipient_account
         IN  IF payee.some THEN PayeeOfAccount(payee.val)
             ELSE clean_description(m)
    ELSE clean_description(m)

\* a transaction built without an external_id
ExternalId_None(m) == None

\* the external_id field of the transaction built from movement m
ExternalId(m) == Some(m.id)

\* Movement::to_lunchmoney_transaction: Ok(Transaction) or Err(String)
to_lunchmoney_transaction(m, asset_id) ==
    IF CurrencyDivisor(m.currency) = 0
    THEN [ok |-> FALSE]
    ELSE [ok |-> TRUE,
          val |-> [id            |-> None,
                   date          |-> IF m.transaction_date.some
                                     THEN m.transaction_date.val
                                     ELSE m.post_date,
                   payee         |-> Some(Payee(m)),
                   amount        |-> Amount(m.amount, CurrencyDivisor(m.currency)),
                   currency      |-> Some(to_lowercase(m.currency)),
                   asset_id      |-> Some(asset_id),
                   notes         |-> m.comment,
                   external_id   |-> ExternalId(m),
                   status        |-> "uncleared",
                   original_name |-> Some(m.description),
                   is_pending    |-> Some(m.pending)]]

(***************************************************************************)
(* str::parse::<u64> of the configured asset id.  Digits only, with an     *)
(* optional leading "+"; the model's asset ids are far shorter than the    *)
(* 20 digits at which u64 overflows.                                       *)
(***************************************************************************)
DIGITS == <<"0","1","2","3","4","5","6","7","8","9">>

DigitValue(c) == (CHOOSE i \in 1..Len(DIGITS) : DIGITS[i] = c) - 1

IsDigit(c) == \E i \in 1..Len(DIGITS) : DIGITS[i] = c

RECURSIVE DigitsValue(_)
DigitsValue(s) ==
    IF s = <<>> THEN 0
    ELSE DigitsValue(SubSeq(s, 1, Len(s) - 1)) * Len(DIGITS) + DigitValue(s[Len(s)])

parse_u64(s) ==
    LET digits == IF s # <<>> /\ s[1] = "+" THEN Tail(s) ELSE s
    IN  IF digits # <<>> /\ \A i \in 1..Len(digits) : IsDigit(digits[i])
        THEN [ok |-> TRUE, val |-> DigitsValue(digits)]
        ELSE [ok |-> FALSE]

\* the decimal digits of the natural number n
RECURSIVE NatDigits(_)
NatDigits(n) ==
    IF n < Len(DIGITS) THEN <<DIGITS[n + 1]>>
    ELSE NatDigits(n \div Len(DIGITS)) \o <<DIGITS[(n % Len(DIGITS)) + 1]>>

\* impl fmt::Display for Amount: write!(f, "{:.4}", self.0), on an amount
\* held in ten-thousandths
fmt(amount) ==
    LET magnitude == IF amount < 0 THEN 0 - amount ELSE amount
        fraction  == NatDigits(AMOUNT_UNIT + (magnitude % AMOUNT_UNIT))
    IN  (IF amount < 0 THEN <<"-">> ELSE <<>>)
        \o NatDigits(magnitude \div AMOUNT_UNIT)
        \o <<".">>
        \o Tail(fraction)

(***************************************************************************)
(* HTTP responses.  A response is [transport, status, body]: transport is  *)
(* FALSE when client.request or body::to_bytes returned an error; body is  *)
(* [parsed |-> FALSE] when serde_json cannot read it as the expected type. *)
(***************************************************************************)
STATUS_OK == 200

NON_OK_STATUSES == {201, 401, 500}

TransportFailure == [transport |-> FALSE, status |-> 0, body |-> [parsed |-> FALSE]]

StatusFailures ==
    {[transport |-> TRUE, status |-> st, body |-> [parsed |-> FALSE]] :
        st \in NON_OK_STATUSES}

Unparsable == [transport |-> TRUE, status |-> STATUS_OK, body |-> [parsed |-> FALSE]]

HardFailures == {TransportFailure, Unparsable} \cup StatusFailures

Ok200(body) == [transport |-> TRUE, status |-> STATUS_OK, body |-> body]

(***************************************************************************)
(* Provider fetcher (src/fintoc.rs)                                        *)
(***************************************************************************)
\* a balance that is the current field whatever the account type
RawBalance_AlwaysCurrent(account_type, balance) == balance.current

\* the balance match on the account type, before currency scaling
RawBalance(account_type, balance) ==
    IF account_type = "Checking" THEN balance.current
    ELSE IF account_type = "Savings" THEN balance.current
    ELSE balance.limit - balance.available

\* fetch_fintoc_balance from the response on: Ok((Amount, Currency)) or Err
fetch_fintoc_balance(resp, account_type) ==
    IF ~resp.transport THEN [ok |-> FALSE]
    ELSE IF resp.status # STATUS_OK THEN [ok |-> FALSE]
    ELSE IF ~resp.body.parsed THEN [ok |-> FALSE]
    ELSE LET account == resp.body.account
             divisor == CurrencyDivisor(account.currency)
             found   == iso_find(account.currency)
         IN  IF divisor = 0 THEN [ok |-> FALSE]
             ELSE IF ~found.some THEN [ok |-> FALSE]
             ELSE [ok |-> TRUE,
                   val |-> [amount   |-> Amount(RawBalance(account_type, account.balance),
                                                divisor),
                            currency |-> found.val]]

\* a JSON array element that does not deserialize into a Movement
MALFORMED == [malformed |-> TRUE]

\* a fetch that takes a body that is no array for the end of the pages
ReadPage_NotArrayEndsPages(resp) ==
    IF ~resp.transport THEN [ok |-> FALSE]
    ELSE IF resp.status # STATUS_OK THEN [ok |-> FALSE]
    ELSE IF ~resp.body.parsed THEN [ok |-> FALSE]
    ELSE IF ~resp.body.is_array THEN [ok |-> TRUE, val |-> <<>>]
    ELSE IF \E k \in 1..Len(resp.body.data) : resp.body.data[k] = MALFORMED
         THEN [ok |-> FALSE]
    ELSE [ok |-> TRUE, val |-> resp.body.data]

\* a fetch that takes an answer of another status for the end of the pages
ReadPage_StatusEndsPages(resp) ==
    IF ~resp.transport THEN [ok |-> FALSE]
    ELSE IF resp.status # STATUS_OK THEN [ok |-> TRUE, val |-> <<>>]
    ELSE IF ~resp.body.parsed THEN [ok |-> FALSE]
    ELSE IF ~resp.body.is_array THEN [ok |-> FALSE]
    ELSE IF \E k \in 1..Len(resp.body.data) : resp.body.data[k] = MALFORMED
         THEN [ok |-> FALSE]
    ELSE [ok |-> TRUE, val |-> resp.body.data]

\* one turn of the loop of fetch_fintoc_movements, from the response on:
\* [ok |-> FALSE] for bail!/?, else the movements of the page
ReadPage(resp) ==
    IF ~resp.transport THEN [ok |-> FALSE]
    ELSE IF resp.status # STATUS_OK THEN [ok |-> FALSE]
    ELSE IF ~resp.body.parsed THEN [ok |-> FALSE]
    ELSE IF ~resp.body.is_array THEN [ok |-> FALSE]
    ELSE IF \E k \in 1..Len(resp.body.data) : resp.body.data[k] = MALFORMED
         THEN [ok |-> FALSE]
    ELSE [ok |-> TRUE, val |-> resp.body.data]

\* a loop that stops at the first page holding a single movement or none
PageEndsLoop_ShortPage(data) == Len(data) <= 1

\* a loop that stops at the first page shorter than per_page
PageEndsLoop_BelowPageSize(data) == Len(data) < 300

\* whether the loop of fetch_fintoc_movements breaks after this page
PageEndsLoop(data) == data = <<>>

(***************************************************************************)
(* Ledger client (src/lunchmoney.rs)                                       *)
(***************************************************************************)
\* ids.into_iter().next()
FirstId(ids) == IF ids = <<>> THEN None ELSE Some(ids[1])

\* a loop over the reported errors that looks at the first one only
ReportsExisting_FirstOnly(errors) ==
    errors # <<>> /\ contains(errors[1], ALREADY_EXISTS)

\* the for loop over the reported errors: TRUE when it returns Ok(None)
ReportsExisting(errors) ==
    \E k \in 1..Len(errors) : contains(errors[k], ALREADY_EXISTS)

\* a match in which returned ids win over the reported errors
MatchInsertResponse_IdsWin(response) ==
    IF response.ids.some THEN FirstId(response.ids.val) ELSE None

\* the match of insert_single_transaction on the parsed response
MatchInsertResponse(response) ==
    IF response.ids.some /\ ~response.error.some
        THEN FirstId(response.ids.val)
    ELSE IF response.ids.some /\ response.error.some
        THEN IF ReportsExisting(response.error.val) THEN None
             ELSE FirstId(response.ids.val)
    ELSE IF ~response.ids.some /\ response.error.some
        THEN None
    ELSE None

\* insert_single_transaction from the response on: Ok(Option<u64>) or Err
insert_single_transaction(resp) ==
    IF ~resp.transport THEN [ok |-> FALSE]
    ELSE IF resp.status # STATUS_OK THEN [ok |-> FALSE]
    ELSE IF ~resp.body.parsed THEN [ok |-> FALSE]
    ELSE [ok |-> TRUE, val |-> MatchInsertResponse(resp.body)]

\* the match of insert_transactions on one result: the new inserted_ids
PushInserted(inserted_ids, result) ==
    IF result.ok /\ result.val.some THEN Append(inserted_ids, result.val.val)
    ELSE inserted_ids

\* a match whose Err arm counts the transaction as existing
CountExisting_ErrorsToo(existing_count, result) ==
    IF result.ok /\ result.val.some THEN existing_count
    ELSE existing_count + 1

\* the match of insert_transactions on one result: the new existing_count
CountExisting(existing_count, result) ==
    IF result.ok /\ ~result.val.some THEN existing_count + 1
    ELSE existing_count

\* the currency field of the asset sent by update_asset_balance:
\* balance_currency.to_string().to_lowercase()
AssetCurrency(balance_currency) == to_lowercase(balance_currency)

\* an Asset built for the asset id 0 whatever the account
UpdatedAsset_IdZero(asset_id, new_balance, balance_currency) ==
    [id |-> Some(0), balance |-> new_balance,
     currency |-> AssetCurrency(balance_currency)]

\* the Asset that update_asset_balance serializes into the PUT body
UpdatedAsset(asset_id, new_balance, balance_currency) ==
    [id |-> Some(asset_id), balance |-> new_balance,
     currency |-> AssetCurrency(balance_currency)]

\* an update that trusts every 200 answer
update_asset_balance_StatusOnly(resp, new_balance, balance_currency) ==
    /\ resp.transport
    /\ resp.status = STATUS_OK

\* an update that verifies the echoed balance and not the echoed currency
update_asset_balance_BalanceOnly(resp, new_balance, balance_currency) ==
    /\ resp.transport
    /\ resp.status = STATUS_OK
    /\ resp.body.parsed
    /\ resp.body.asset.balance = new_balance

\* update_asset_balance from the response on: TRUE for Ok(()), FALSE for Err
update_asset_balance(resp, new_balance, balance_currency) ==
    IF ~resp.transport THEN FALSE
    ELSE IF resp.status # STATUS_OK THEN FALSE
    ELSE IF ~resp.body.parsed THEN FALSE
    ELSE IF resp.body.asset.balance # new_balance THEN FALSE
    ELSE IF resp.body.asset.currency # AssetCurrency(balance_currency) THEN FALSE
    ELSE TRUE

(***************************************************************************)
(* Sync orchestrator (src/main.rs, cmd_sync_fintoc_movements)              *)
(***************************************************************************)
\* chunks(50)
CHUNK_SIZE == 50

\* per_page=300 of the movements request
PER_PAGE == 300

VARIABLES
    banks_to_sync,           \* the banks selected from the configuration
    pc,                      \* where the invocation stands
    run,                     \* invocations started so far
    pos,                     \* index of the account being synced
    balance,                 \* (balance_amount, balance_currency), once fetched
    page,                    \* fetch_fintoc_movements: page
    movements,               \* fetch_fintoc_movements: movements
    lunchmoney_transactions, \* normalized transactions not yet handed to a chunk
    transactions,            \* insert_transactions: the chunk being inserted
    next,                    \* insert_transactions: index of the next transaction
    inserted_ids,            \* insert_transactions: inserted_ids
    chunk_existing,          \* insert_transactions: existing_count
    synced_transactions,     \* per account: ids inserted so far
    existing_count,          \* per account: existing_count
    ledger,                  \* remote: the transactions the ledger stores
    assets,                  \* remote: the ledger's asset balances
    requests,                \* the requests issued over all invocations, in order
    response,                \* the last response received
    pages,                   \* the answers to the current movements fetch
    signals,                 \* answers of the current insert_transactions call
                             \* that carried an "already exists" error
    calls,                   \* calls of insert_transactions so far
    returned,                \* the value the last finished call returned
    output                   \* the per-account summaries printed

vars ==
    <<banks_to_sync, pc, run, pos, balance, page, movements,
      lunchmoney_transactions, transactions, next, inserted_ids,
      chunk_existing, synced_transactions, existing_count, ledger, assets,
      requests, response, pages, signals, calls, returned, output>>

\* loops that take the last configured bank first
RECURSIVE accounts_to_sync_LastBankFirst(_)
accounts_to_sync_LastBankFirst(banks) ==
    IF banks = <<>> THEN <<>>
    ELSE accounts_to_sync_LastBankFirst(Tail(banks))
         \o [k \in 1..Len(banks[1].accounts) |->
                [bank |-> banks[1].name, account |-> banks[1].accounts[k]]]

\* the nested for loops over banks and accounts, as one list in loop order
RECURSIVE accounts_to_sync(_)
accounts_to_sync(banks) ==
    IF banks = <<>> THEN <<>>
    ELSE [k \in 1..Len(banks[1].accounts) |->
             [bank |-> banks[1].name, account |-> banks[1].accounts[k]]]
         \o accounts_to_sync(Tail(banks))

Worklist == accounts_to_sync(banks_to_sync)

Current == Worklist[pos].account

\* the locals of one account's sync, before it starts and after it ends
ResetAccount ==
    /\ balance' = None
    /\ page' = 1
    /\ movements' = <<>>
    /\ lunchmoney_transactions' = <<>>
    /\ transactions' = <<>>
    /\ next' = 1
    /\ inserted_ids' = <<>>
    /\ chunk_existing' = 0
    /\ synced_transactions' = <<>>
    /\ existing_count' = 0

\* an error after which the sync of the account starts over
Fail_Resumes(fn) ==
    /\ pc' = "balance"
    /\ returned' = [fn |-> fn, ok |-> FALSE]
    /\ ResetAccount

\* cmd_sync_fintoc_movements returns Err: main ends with it
Fail(fn) ==
    /\ pc' = "failed"
    /\ returned' = [fn |-> fn, ok |-> FALSE]
    /\ ResetAccount

\* main starts cmd_sync_fintoc_movements
StartSync ==
    /\ pc \in {"idle", "done", "failed"}
    /\ run' = run + 1
    /\ pos' = 1
    /\ pc' = IF Worklist = <<>> THEN "done" ELSE "balance"
    /\ response' = None
    /\ pages' = <<>>
    /\ signals' = 0
    /\ calls' = 0
    /\ output' = <<>>
    /\ returned' = None
    /\ ResetAccount
    /\ UNCHANGED <<banks_to_sync, ledger, assets, requests>>

\* a balance fetch whose error is not propagated
AfterBalance_IgnoresError(result, account) ==
    IF account.skip_movements THEN "update" ELSE "movements"

\* a sync that fetches movements whatever the skip_movements flag
AfterBalance_IgnoresSkip(result, account) ==
    IF ~result.ok THEN "failed" ELSE "movements"

\* the ? of line 242 and the if of line 254: where the sync goes after the
\* balance fetch
AfterBalance(result, account) ==
    IF ~result.ok THEN "failed"
    ELSE IF account.skip_movements THEN "update"
    ELSE "movements"

\* lines 241-252: fetch_fintoc_balance(...).await?
FetchBalance(resp) ==
    /\ pc = "balance"
    /\ LET result == fetch_fintoc_balance(resp, Current.account_type)
           step   == AfterBalance(result, Current)
       IN  /\ requests' = Append(requests,
                  [run |-> run, pos |-> pos, kind |-> "balance",
                   account |-> Current.fintoc_account_id,
                   resp |-> resp, answer |-> result])
           /\ response' = Some(resp)
           /\ IF step = "failed"
              THEN Fail("fetch_fintoc_balance")
              ELSE /\ balance' = IF result.ok THEN Some(result.val) ELSE None
                   /\ existing_count' = 0
                   /\ returned' = [fn |-> "fetch_fintoc_balance"] @@ result
                   /\ pc' = step
                   /\ UNCHANGED <<page, movements, lunchmoney_transactions,
                                  transactions, next, inserted_ids, chunk_existing,
                                  synced_transactions>>
    /\ UNCHANGED <<banks_to_sync, run, pos, ledger, assets, pages, signals,
                   calls, output>>

\* lines 255-256: one turn of the loop of fetch_fintoc_movements
FetchPage(resp) ==
    /\ pc = "movements"
    /\ LET read == ReadPage(resp)
       IN  /\ requests' = Append(requests,
                  [run |-> run, pos |-> pos, kind |-> "movements",
                   account |-> Current.fintoc_account_id,
                   per_page |-> PER_PAGE, page |-> page, resp |-> resp])
           /\ response' = Some(resp)
           /\ pages' = IF page = 1 THEN <<resp>> ELSE Append(pages, resp)
           /\ IF ~read.ok
              THEN Fail("fetch_fintoc_movements")
              ELSE /\ movements' = movements \o read.val
                   /\ IF PageEndsLoop(read.val)
                      THEN /\ pc' = "normalize"
                           /\ page' = page
                           /\ returned' = [fn |-> "fetch_fintoc_movements",
                                           ok |-> TRUE,
                                           val |-> movements \o read.val]
                      ELSE /\ pc' = "movements"
                           /\ page' = page + 1
                           /\ returned' = returned
                   /\ UNCHANGED <<balance, lunchmoney_transactions, transactions,
                                  next, inserted_ids, chunk_existing,
                                  synced_transactions, existing_count>>
    /\ UNCHANGED <<banks_to_sync, run, pos, ledger, assets, signals, calls,
                   output>>

\* a closure that builds every transaction for asset 0
NormalizeOne_NoTarget(m, asset_id_text) ==
    LET t == to_lunchmoney_transaction(m, 0)
    IN  IF parse_u64(asset_id_text).ok /\ t.ok THEN Some(t.val) ELSE None

\* the filter_map closure of lines 272-278 on one movement
NormalizeOne(m, asset_id_text) ==
    LET asset_id == parse_u64(asset_id_text)
    IN  IF ~asset_id.ok THEN None
        ELSE LET t == to_lunchmoney_transaction(m, asset_id.val)
             IN  IF t.ok THEN Some(t.val) ELSE None

\* a collect that yields nothing when one movement fails to normalize
FilterMap_AllOrNothing(ms, asset_id_text) ==
    IF \E k \in 1..Len(ms) : ~NormalizeOne(ms[k], asset_id_text).some
    THEN <<>>
    ELSE [k \in 1..Len(ms) |-> NormalizeOne(ms[k], asset_id_text).val]

\* filter_map(...).collect(): the Some results of the closure, in order
FilterMap(ms, asset_id_text) ==
    LET mapped == [k \in 1..Len(ms) |-> NormalizeOne(ms[k], asset_id_text)]
        kept   == SelectSeq(mapped, LAMBDA head : head.some)
    IN  [k \in 1..Len(kept) |-> kept[k].val]

\* lines 270-281: normalize the fetched movements
NormalizeMovements ==
    /\ pc = "normalize"
    /\ lunchmoney_transactions' = FilterMap(movements, Current.lunch_money_asset_id)
    /\ synced_transactions' = <<>>
    /\ movements' = <<>>
    /\ pc' = "chunks"
    /\ UNCHANGED <<banks_to_sync, run, pos, balance, page, transactions, next,
                   inserted_ids, chunk_existing, existing_count, ledger, assets,
                   requests, response, pages, signals, calls, returned, output>>

\* a chunk that takes everything that is left
Take_Whole(seq, n) == seq

\* chunks(50): the next chunk
Take(seq, n) == SubSeq(seq, 1, IF Len(seq) < n THEN Len(seq) ELSE n)

Drop(seq, n) == SubSeq(seq, (IF Len(seq) < n THEN Len(seq) ELSE n) + 1, Len(seq))

\* lines 283-289: the next chunk of 50 is handed to insert_transactions
CallInsertTransactions ==
    /\ pc = "chunks"
    /\ lunchmoney_transactions # <<>>
    /\ transactions' = Take(lunchmoney_transactions, CHUNK_SIZE)
    /\ lunchmoney_transactions' = Drop(lunchmoney_transactions, CHUNK_SIZE)
    /\ inserted_ids' = <<>>
    /\ chunk_existing' = 0
    /\ next' = 1
    /\ signals' = 0
    /\ calls' = calls + 1
    /\ pc' = "insert"
    /\ UNCHANGED <<banks_to_sync, run, pos, balance, page, movements,
                   synced_transactions, existing_count, ledger, assets, requests,
                   response, pages, returned, output>>

\* whether the ledger holds a transaction with this external_id
Holds(stored, external_id) ==
    /\ external_id.some
    /\ \E k \in 1..Len(stored) : stored[k].transaction.external_id = external_id

\* the id the ledger gives the next transaction it stores
NewId(stored) == Len(stored) + 1

\* a loop that asks again for a transaction whose insert failed
LoopStep_Retry(index, result) == IF result.ok THEN index + 1 ELSE index

\* the for loop of line 122: the index of the transaction after this one
LoopStep(index, result) == index + 1

\* whether an error list of the ledger has a message that contains
\* "already exists"
NamesExisting(error) ==
    /\ error.some
    /\ \E k \in 1..Len(error.val) : contains(error.val[k], ALREADY_EXISTS)

\* whether an answer is a 200 whose error list has a message that contains
\* "already exists"
CarriesExisting(resp) ==
    /\ resp.transport
    /\ resp.status = STATUS_OK
    /\ resp.body.parsed
    /\ NamesExisting(resp.body.error)

\* one turn of the loop of insert_transactions (lines 122-128): the POST of
\* insert_single_transaction, the ledger's reaction [stored, resp] to it, and
\* the match on the result
InsertSingle(reaction) ==
    /\ pc = "insert"
    /\ next <= Len(transactions)
    /\ LET transaction == transactions[next]
           result == insert_single_transaction(reaction.resp)
       IN  /\ requests' = Append(requests,
                  [run |-> run, pos |-> pos, kind |-> "insert",
                   transaction |-> transaction, answer |-> result])
           /\ response' = Some(reaction.resp)
           /\ signals' = IF CarriesExisting(reaction.resp) THEN signals + 1
                         ELSE signals
           /\ ledger' = IF reaction.stored
                        THEN Append(ledger, [id |-> NewId(ledger),
                                             transaction |-> transaction,
                                             run |-> run])
                        ELSE ledger
           /\ inserted_ids' = PushInserted(inserted_ids, result)
           /\ chunk_existing' = CountExisting(chunk_existing, result)
           /\ returned' = [fn |-> "insert_single_transaction"] @@ result
           /\ next' = LoopStep(next, result)
    /\ UNCHANGED <<banks_to_sync, pc, run, pos, balance, page, movements,
                   lunchmoney_transactions, transactions, synced_transactions,
                   existing_count, assets, pages, calls, output>>

\* line 130 and lines 291-294: insert_transactions returns, the chunk's
\* counts are added to the account's
ReturnInsertTransactions ==
    /\ pc = "insert"
    /\ next > Len(transactions)
    /\ returned' = [fn |-> "insert_transactions", ok |-> TRUE,
                    val |-> [ids |-> inserted_ids, existing |-> chunk_existing]]
    /\ existing_count' = existing_count + chunk_existing
    /\ synced_transactions' = synced_transactions \o inserted_ids
    /\ pc' = "chunks"
    /\ UNCHANGED <<banks_to_sync, run, pos, balance, page, movements,
                   lunchmoney_transactions, transactions, next, inserted_ids,
                   chunk_existing, ledger, assets, requests, response, pages,
                   signals, calls, output>>

\* lines 297-317: the chunks are exhausted
FinishMovements ==
    /\ pc = "chunks"
    /\ lunchmoney_transactions = <<>>
    /\ pc' = "update"
    /\ UNCHANGED <<banks_to_sync, run, pos, balance, page, movements,
                   lunchmoney_transactions, transactions, next, inserted_ids,
                   chunk_existing, synced_transactions, existing_count, ledger,
                   assets, requests, response, pages, signals, calls, returned,
                   output>>

\* a summary whose count goes on from the one reported before it
Summary_CarriesOver ==
    LET before == IF output # <<>> /\ output[Len(output)].existing_count.some
                  THEN output[Len(output)].existing_count.val
                  ELSE 0
    IN  [bank |-> Worklist[pos].bank, account |-> Current.name,
         existing_count |-> IF existing_count + before > 0
                            THEN Some(existing_count + before) ELSE None,
         balance |-> balance.val]

\* the summary of lines 338-363: the values that the two printed lines
\* carry; the count of existing transactions is printed when it is not 0
Summary ==
    [bank |-> Worklist[pos].bank, account |-> Current.name,
     existing_count |-> IF existing_count > 0 THEN Some(existing_count) ELSE None,
     balance |-> balance.val]

\* lines 329-364: update_asset_balance(...).await?, the summary, and the
\* step to the next account.  The reaction is [stored, resp]: what the ledger
\* now holds for the asset (None: unchanged) and its answer.
UpdateAssetBalance(reaction) ==
    /\ pc = "update"
    /\ LET asset_id == parse_u64(Current.lunch_money_asset_id)
       IN  IF ~asset_id.ok
           THEN /\ Fail("parse")
                /\ UNCHANGED <<pos, assets, requests, response, output>>
           ELSE /\ requests' = Append(requests,
                       [run |-> run, pos |-> pos, kind |-> "update",
                        new_balance |-> balance.val.amount,
                        balance_currency |-> balance.val.currency,
                        asset |-> UpdatedAsset(asset_id.val, balance.val.amount,
                                               balance.val.currency)])
                /\ response' = Some(reaction.resp)
                /\ assets' = IF reaction.stored.some
                             THEN (asset_id.val :> reaction.stored.val) @@ assets
                             ELSE assets
                /\ IF update_asset_balance(reaction.resp, balance.val.amount,
                                           balance.val.currency)
                   THEN /\ output' = Append(output, Summary)
                        /\ returned' = [fn |-> "update_asset_balance", ok |-> TRUE]
                        /\ pos' = IF pos < Len(Worklist) THEN pos + 1 ELSE pos
                        /\ pc' = IF pos < Len(Worklist) THEN "balance" ELSE "done"
                        /\ ResetAccount
                   ELSE /\ Fail("update_asset_balance")
                        /\ UNCHANGED <<pos, output>>
    /\ UNCHANGED <<banks_to_sync, run, ledger, pages, signals, calls>>

(***************************************************************************)
(* Bounds                                                                  *)
(***************************************************************************)
\* invocations of the sync command over the same ledger (SpecRuns)
MaxRuns == 2

\* non-empty pages the provider serves before an empty one (SpecFetch)
MaxPages == 2

\* movements on one page (SpecFetch)
MaxPageLen == 2

\* transactions in one batch (SpecBatch)
MaxBatch == 2

SeqsUpTo(S, n) == UNION {[1..k -> S] : k \in 0..n}

(***************************************************************************)
(* Inputs: configuration                                                   *)
(***************************************************************************)
ACCT_CHECKING ==
    [name |-> "checking", fintoc_account_id |-> "acc_1",
     lunch_money_asset_id |-> <<"7">>,
     account_type |-> "Checking", skip_movements |-> FALSE]

ACCT_CREDIT_SKIP ==
    [name |-> "credit", fintoc_account_id |-> "acc_2",
     lunch_money_asset_id |-> <<"+", "1", "2">>,
     account_type |-> "Credit", skip_movements |-> TRUE]

ACCT_SAVINGS_BAD_ID ==
    [name |-> "savings", fintoc_account_id |-> "acc_3",
     lunch_money_asset_id |-> <<"x", "7">>,
     account_type |-> "Savings", skip_movements |-> FALSE]

ACCT_SKIP_BAD_ID ==
    [name |-> "cash", fintoc_account_id |-> "acc_4",
     lunch_money_asset_id |-> <<>>,
     account_type |-> "Checking", skip_movements |-> TRUE]

Bank(name, accounts) == [name |-> name, accounts |-> accounts]

CONFIGS ==
    { <<Bank("b1", <<ACCT_CHECKING>>)>>,
      <<Bank("b1", <<ACCT_CREDIT_SKIP, ACCT_CHECKING>>)>>,
      <<Bank("b1", <<ACCT_CHECKING>>), Bank("b2", <<ACCT_CREDIT_SKIP>>)>>,
      <<Bank("b1", <<ACCT_SAVINGS_BAD_ID>>), Bank("b2", <<ACCT_CHECKING>>)>>,
      <<Bank("b0", <<>>), Bank("b1", <<ACCT_SKIP_BAD_ID, ACCT_CREDIT_SKIP>>)>> }

(***************************************************************************)
(* Inputs: the provider's answers                                          *)
(***************************************************************************)
\* the failures the single-invocation specifications draw from
SyncFailures ==
    {TransportFailure, Unparsable,
     [transport |-> TRUE, status |-> 500, body |-> [parsed |-> FALSE]]}

BALANCE_CURRENCIES == {CLP, USD, <<"u","s","d">>, GBP, <<"X","X","Q">>}

BalanceBody(currency, available, current, limit) ==
    [parsed |-> TRUE,
     account |-> [currency |-> currency,
                  balance |-> [available |-> available, current |-> current,
                               limit |-> limit]]]

SyncBalanceResponses ==
    SyncFailures
    \cup {Ok200(BalanceBody(c, 30000, 4500, 100000)) : c \in BALANCE_CURRENCIES}

T_CAFE == <<"C","a","f","e">>

T_ANA == <<"A","n","a">>

T_BCI == <<"B","C","I">>

Movement(id, amount, currency, movement_type, description, sender, recipient) ==
    [id |-> id, amount |-> amount, currency |-> currency,
     movement_type |-> movement_type, description |-> description,
     sender_account |-> sender, recipient_account |-> recipient,
     post_date |-> 20, transaction_date |-> None, pending |-> FALSE,
     comment |-> None]

TransferAccount(holder_name, institution) ==
    [holder_name |-> holder_name, institution |-> institution]

MV_CLP == Movement("mov_1", -5000, CLP, "other", T_CAFE, None, None)

MV_USD ==
    Movement("mov_2", 1250, <<"u","s","d">>, "transfer", T_CAFE,
             Some(TransferAccount(T_ANA, Some([name |-> T_BCI]))), None)

MV_GBP == Movement("mov_3", 300, GBP, "check", T_CAFE, None, None)

ArrayBody(data) == [parsed |-> TRUE, is_array |-> TRUE, data |-> data]

NotArrayBody == [parsed |-> TRUE, is_array |-> FALSE]

\* what the provider may hold on page p of an account in the
\* single-invocation specifications: nothing past the second page
SyncPageData(p) ==
    IF p = 1 THEN {<<>>, <<MV_USD>>, <<MV_CLP, MV_GBP>>}
    ELSE IF p = 2 THEN {<<>>, <<MV_GBP, MV_USD>>}
    ELSE {<<>>}

SyncPageResponses(p) ==
    SyncFailures
    \cup {Ok200(NotArrayBody), Ok200(ArrayBody(<<MV_USD, MALFORMED>>))}
    \cup {Ok200(ArrayBody(data)) : data \in SyncPageData(p)}

\* the answers to the request for page p over the movements ms: failures,
\* non-arrays, arrays with a malformed element, and arrays of up to
\* MaxPageLen movements; past MaxPages the provider has no movements left
PageResponses(ms, p) ==
    HardFailures
    \cup {Ok200(NotArrayBody)}
    \cup {Ok200(ArrayBody(data \o <<MALFORMED>>)) : data \in SeqsUpTo(ms, 1)}
    \cup {Ok200(ArrayBody(data)) :
            data \in SeqsUpTo(ms, IF p > MaxPages THEN 0 ELSE MaxPageLen)}

(***************************************************************************)
(* Inputs: the ledger's answers                                            *)
(***************************************************************************)
E_EXISTS ==
    <<"k","e","y"," ">> \o ALREADY_EXISTS \o <<".">>

E_ALMOST ==
    <<"a","l","r","e","a","d","y"," ","e","x","i","s","t">>

E_DATE == <<"b","a","d"," ","d","a","t","e">>

InsertBody(ids, error) == [parsed |-> TRUE, ids |-> ids, error |-> error]

\* the reactions [stored, resp] of a ledger that refuses a transaction whose
\* external_id it holds, answering with an error that contains "already
\* exists".  failures, idss and errorss are the failures, the id lists and
\* the error lists its answers are drawn from.  A transaction it stores is
\* answered with its id, or the answer is lost.
LedgerReactions(stored, transaction, failures, idss, errorss) ==
    IF Holds(stored, transaction.external_id)
    THEN {[stored |-> FALSE, resp |-> h] : h \in failures}
         \cup {[stored |-> FALSE, resp |-> Ok200(InsertBody(ids, error))] :
                 ids \in idss,
                 error \in {e \in errorss : NamesExisting(e)}}
    ELSE {[stored |-> st, resp |-> h] : st \in BOOLEAN, h \in failures}
         \cup {[stored |-> FALSE, resp |-> Ok200(InsertBody(ids, error))] :
                 ids \in {i \in idss : ~i.some \/ i.val = <<>>},
                 error \in errorss}
         \cup {[stored |-> TRUE, resp |-> Ok200(InsertBody(ids, error))] :
                 ids \in {i \in idss : i.some /\ i.val # <<>>},
                 error \in {e \in errorss : ~NamesExisting(e)}}

\* the transaction the next insert request carries
Pending ==
    IF pc = "insert" /\ next <= Len(transactions) THEN transactions[next]
    ELSE [external_id |-> None]

SyncReactions ==
    LedgerReactions(ledger, Pending, SyncFailures,
                    {None, Some(<<NewId(ledger)>>)},
                    {None, Some(<<E_EXISTS>>), Some(<<E_DATE>>)})

\* what the ledger may echo for a requested asset
EchoAssets(asset) ==
    {asset,
     [asset EXCEPT !.balance = @ + 1],
     [asset EXCEPT !.currency = to_uppercase(@)],
     [asset EXCEPT !.currency = to_lowercase(EUR)]}

\* the reactions [stored, resp] of the ledger to the PUT of an asset
UpdateReactions(asset, failures) ==
    {[stored |-> None, resp |-> h] : h \in failures}
    \cup {[stored |-> Some(asset), resp |-> TransportFailure]}
    \cup {[stored |-> Some(a), resp |-> Ok200([parsed |-> TRUE, asset |-> a])] :
            a \in EchoAssets(asset)}

\* the asset the pending update sends, when the asset id parses
PendingAsset ==
    LET asset_id == parse_u64(Current.lunch_money_asset_id)
    IN  UpdatedAsset(IF asset_id.ok THEN asset_id.val ELSE 0,
                     balance.val.amount, balance.val.currency)

SyncUpdateReactions ==
    IF pc = "update" THEN UpdateReactions(PendingAsset, SyncFailures) ELSE {}

(***************************************************************************)
(* Spec: one invocation of the sync command over the selected banks        *)
(***************************************************************************)
Idle ==
    /\ pc = "idle"
    /\ run = 0
    /\ pos = 0
    /\ balance = None
    /\ page = 1
    /\ movements = <<>>
    /\ lunchmoney_transactions = <<>>
    /\ transactions = <<>>
    /\ next = 1
    /\ inserted_ids = <<>>
    /\ chunk_existing = 0
    /\ synced_transactions = <<>>
    /\ existing_count = 0
    /\ assets = <<>>
    /\ requests = <<>>
    /\ response = None
    /\ pages = <<>>
    /\ signals = 0
    /\ calls = 0
    /\ returned = None
    /\ output = <<>>

Init ==
    /\ banks_to_sync \in CONFIGS
    /\ ledger = <<>>
    /\ Idle

Next ==
    \/ run = 0 /\ StartSync
    \/ \E resp \in SyncBalanceResponses : FetchBalance(resp)
    \/ \E resp \in SyncPageResponses(page) : FetchPage(resp)
    \/ NormalizeMovements
    \/ CallInsertTransactions
    \/ \E reaction \in SyncReactions : InsertSingle(reaction)
    \/ ReturnInsertTransactions
    \/ FinishMovements
    \/ \E reaction \in SyncUpdateReactions : UpdateAssetBalance(reaction)

Spec == Init /\ [][Next]_vars

(***************************************************************************)
(* Properties of one invocation (Spec)                                     *)
(***************************************************************************)
Last(seq) == seq[Len(seq)]

\* the requests of kind kind issued by the current invocation for the
\* account at position p
RequestsOf(p, kind) ==
    {k \in 1..Len(requests) :
        requests[k].run = run /\ requests[k].pos = p /\ requests[k].kind = kind}

\* the sync of the account at position p has come to its end
SyncEnded(p) == p < pos \/ (p = pos /\ pc \in {"done", "failed"})

\* an answer to the balance request that is a transport or status error, an
\* unparsable body, or names a currency other than CLP, USD and EUR
BalanceFetchFails(resp) ==
    \/ ~resp.transport
    \/ resp.status # STATUS_OK
    \/ ~resp.body.parsed
    \/ to_uppercase(resp.body.account.currency) \notin {CLP, USD, EUR}

\* C9: the first request of every account's sync is its balance fetch, and
\* a balance fetch that fails (transport or status error, unparsable body,
\* unsupported currency) is the last request issued: the invocation has
\* failed and no movement page, insert or balance update follows it.
C9_BalanceFetchFirstAndFatal ==
    \A k \in 1..Len(requests) :
        /\ (k = 1 \/ requests[k - 1].pos # requests[k].pos)
              => requests[k].kind = "balance"
        /\ (requests[k].kind = "balance" /\ BalanceFetchFails(requests[k].resp))
              => (k = Len(requests) /\ pc = "failed")

\* C9 witness: the second account's balance fetch fails on an unsupported
\* currency after the first account was synced
C9_Witness ==
    /\ pc = "failed"
    /\ Len(requests) > 2
    /\ Last(requests).kind = "balance"
    /\ Last(requests).pos = 2
    /\ Last(requests).resp.transport
    /\ Last(requests).resp.body.parsed
    /\ Last(requests).resp.body.account.currency = GBP

\* the latest balance request of the account at position p before request k
BalanceRequestBefore(p, k) ==
    CHOOSE b \in RequestsOf(p, "balance") :
        b < k /\ \A c \in RequestsOf(p, "balance") : c < k => c <= b

\* no movement-page and no insert request is issued for a skip-movements
\* account
SkipIssuesNoMovementRequest ==
    \A k \in 1..Len(requests) :
        Worklist[requests[k].pos].account.skip_movements
            => requests[k].kind \in {"balance", "update"}

\* every balance update carries the amount and the (lowercased) currency
\* that the account's balance fetch returned
UpdateSendsFetchedBalance ==
    \A k \in 1..Len(requests) :
        requests[k].kind = "update" =>
            LET fetched == requests[BalanceRequestBefore(requests[k].pos, k)].answer
            IN  /\ fetched.ok
                /\ requests[k].asset.balance = fetched.val.amount
                /\ requests[k].asset.currency = to_lowercase(fetched.val.currency)

\* C10 as stated: a skip-movements account whose balance was fetched and
\* whose sync has ended was sent exactly one balance update
C10_SkipAlwaysUpdates ==
    /\ SkipIssuesNoMovementRequest
    /\ UpdateSendsFetchedBalance
    /\ \A p \in 1..Len(Worklist) :
          (/\ Worklist[p].account.skip_movements
           /\ SyncEnded(p)
           /\ \E b \in RequestsOf(p, "balance") : requests[b].answer.ok)
              => Cardinality(RequestsOf(p, "update")) = 1

\* C10 amended: a skip-movements account gets no movement-page and no insert
\* request; once its sync has ended it was sent exactly one balance update
\* if its balance fetch succeeded and its configured asset id is an unsigned
\* integer, and none otherwise; every balance update carries the balance and
\* currency the account's balance fetch returned.
C10_SkipUpdatesWhenAssetIdValid ==
    /\ SkipIssuesNoMovementRequest
    /\ UpdateSendsFetchedBalance
    /\ \A p \in 1..Len(Worklist) :
          (Worklist[p].account.skip_movements /\ SyncEnded(p))
              => Cardinality(RequestsOf(p, "update")) =
                    IF /\ \E b \in RequestsOf(p, "balance") : requests[b].answer.ok
                       /\ parse_u64(Worklist[p].account.lunch_money_asset_id).ok
                    THEN 1 ELSE 0

\* C10 witness: an invocation ended after updating the balance of a
\* skip-movements account and of an account whose movements were synced
C10_Witness ==
    /\ pc = "done"
    /\ \E k \in 1..Len(requests) :
          /\ requests[k].kind = "update"
          /\ Worklist[requests[k].pos].account.skip_movements
    /\ \E k \in 1..Len(requests) :
          /\ requests[k].kind = "update"
          /\ RequestsOf(requests[k].pos, "insert") # {}

(***************************************************************************)
(* SpecFetch: fetch_fintoc_movements on one account, over every provider   *)
(* that serves up to MaxPages pages of up to MaxPageLen movements          *)
(***************************************************************************)
FETCH_MOVEMENTS == {MV_CLP, MV_USD}

\* the one checking account, whose balance fetch succeeds
ONE_CHECKING == <<Bank("b1", <<ACCT_CHECKING>>)>>

BALANCE_OK == Ok200(BalanceBody(CLP, 30000, 4500, 100000))

InitFetch ==
    /\ banks_to_sync = ONE_CHECKING
    /\ ledger = <<>>
    /\ Idle

NextFetch ==
    \/ run = 0 /\ StartSync
    \/ FetchBalance(BALANCE_OK)
    \/ \E resp \in PageResponses(FETCH_MOVEMENTS, page) : FetchPage(resp)

SpecFetch == InitFetch /\ [][NextFetch]_vars

\* an answer that is a 200 whose body is an array of well-formed movements
IsPage(resp) ==
    /\ resp.transport
    /\ resp.status = STATUS_OK
    /\ resp.body.parsed
    /\ resp.body.is_array
    /\ \A k \in 1..Len(resp.body.data) : resp.body.data[k] # MALFORMED

RECURSIVE ConcatPages(_)
ConcatPages(ps) ==
    IF ps = <<>> THEN <<>> ELSE ps[1].body.data \o ConcatPages(Tail(ps))

\* the page numbers of the movement requests issued, in order
PagesRequested ==
    LET asked == SelectSeq(requests, LAMBDA q : q.kind = "movements")
    IN  [k \in 1..Len(asked) |-> asked[k].page]

\* C3: the requests issued are for pages 1, 2, ... in order, one per answer
\* received; while every answer is a non-empty page the fetch goes on; it
\* returns exactly when the provider has answered n non-empty pages and then
\* an empty one, having issued n+1 requests, and returns the concatenation
\* of the n pages in provider order.
C3_PaginationToFirstEmptyPage ==
    /\ PagesRequested = [k \in 1..Len(pages) |-> k]
    /\ pc = "movements" =>
          \A k \in 1..Len(pages) : IsPage(pages[k]) /\ pages[k].body.data # <<>>
    /\ (/\ pages # <<>>
        /\ \A k \in 1..Len(pages) : IsPage(pages[k])
        /\ \A k \in 1..(Len(pages) - 1) : pages[k].body.data # <<>>
        /\ Last(pages).body.data = <<>>)
          => /\ pc = "normalize"
             /\ returned = [fn |-> "fetch_fintoc_movements", ok |-> TRUE,
                            val |-> ConcatPages(pages)]
             /\ Len(PagesRequested) = Len(pages)
    /\ pc = "normalize" =>
          /\ \A k \in 1..Len(pages) : IsPage(pages[k])
          /\ \A k \in 1..(Len(pages) - 1) : pages[k].body.data # <<>>
          /\ Last(pages).body.data = <<>>

\* C3 witness: two non-empty pages, then an empty one: three requests, and
\* the movements of both pages returned
C3_Witness ==
    /\ pc = "normalize"
    /\ Len(pages) = 3
    /\ PagesRequested = <<1, 2, 3>>
    /\ Len(pages[1].body.data) = 2
    /\ Len(pages[2].body.data) = 2
    /\ Len(returned.val) = 4

\* C4: an answer that is a transport failure, a status other than 200, a
\* body that is no JSON array, or an array with an element that is no
\* movement, is the last one: the fetch returns an error that carries no
\* movement, the movements of the earlier pages are dropped, and the number
\* of requests issued is that answer's page number.
C4_FetchErrorIsTotal ==
    \A k \in 1..Len(pages) :
        ~IsPage(pages[k]) =>
            /\ k = Len(pages)
            /\ pc = "failed"
            /\ returned = [fn |-> "fetch_fintoc_movements", ok |-> FALSE]
            /\ movements = <<>>
            /\ lunchmoney_transactions = <<>>
            /\ PagesRequested = [j \in 1..k |-> j]

\* C4 witness: the second page holds a movement followed by a malformed
\* element, after a first page of movements
C4_Witness ==
    /\ pc = "failed"
    /\ Len(pages) = 2
    /\ IsPage(pages[1])
    /\ pages[1].body.data # <<>>
    /\ pages[2].transport
    /\ pages[2].body.parsed
    /\ pages[2].body.is_array
    /\ Len(pages[2].body.data) = 2
    /\ pages[2].body.data[2] = MALFORMED

(***************************************************************************)
(* SpecBatch: one invocation on one account whose movements come on one    *)
(* page of up to MaxBatch movements, over a ledger that may already hold   *)
(* one of them and answers every insert in any of its shapes               *)
(***************************************************************************)
BATCH_MOVEMENTS == {MV_CLP, MV_USD}

\* the ledger's record of MV_CLP, stored before the invocation
HELD_CLP ==
    [id |-> 1, transaction |-> to_lunchmoney_transaction(MV_CLP, 7).val,
     run |-> 0]

\* the provider holds one page of up to MaxBatch movements
BatchPages(p) ==
    IF p = 1
    THEN {Ok200(ArrayBody(data)) : data \in SeqsUpTo(BATCH_MOVEMENTS, MaxBatch)}
    ELSE {Ok200(ArrayBody(<<>>))}

\* the id lists of the ledger's answers: absent, empty, one id, two ids
BatchIds ==
    {None, Some(<<>>), Some(<<NewId(ledger)>>),
     Some(<<NewId(ledger), NewId(ledger) + 1>>)}

\* the error lists of the ledger's answers
BATCH_ERRORS ==
    {None, Some(<<>>), Some(<<E_DATE>>), Some(<<E_ALMOST>>), Some(<<E_EXISTS>>),
     Some(<<E_ALMOST, E_EXISTS>>)}

BatchReactions ==
    LedgerReactions(ledger, Pending, HardFailures, BatchIds, BATCH_ERRORS)

\* the ledger stores the asset sent and echoes it
UpdateEchoed ==
    IF pc = "update"
    THEN {[stored |-> Some(PendingAsset),
           resp |-> Ok200([parsed |-> TRUE, asset |-> PendingAsset])]}
    ELSE {}

InitBatch ==
    /\ banks_to_sync = ONE_CHECKING
    /\ ledger \in {<<>>, <<HELD_CLP>>}
    /\ Idle

NextBatch ==
    \/ run = 0 /\ StartSync
    \/ FetchBalance(BALANCE_OK)
    \/ \E resp \in BatchPages(page) : FetchPage(resp)
    \/ NormalizeMovements
    \/ CallInsertTransactions
    \/ \E reaction \in BatchReactions : InsertSingle(reaction)
    \/ ReturnInsertTransactions
    \/ FinishMovements
    \/ \E reaction \in UpdateEchoed : UpdateAssetBalance(reaction)

SpecBatch == InitBatch /\ [][NextBatch]_vars

\* the function fn was the last to return
Returned(fn) == returned # None /\ returned.fn = fn

\* the insert requests of invocation r, in order
InsertRequestsOf(r) ==
    SelectSeq(requests, LAMBDA q : q.run = r /\ q.kind = "insert")

\* the transactions that the insert requests of invocation r carried
InsertedBy(r) ==
    [k \in 1..Len(InsertRequestsOf(r)) |-> InsertRequestsOf(r)[k].transaction]

\* C5: when the answer to an insert is a 200 with a parsable body, whatever
\* its shape (ids only, ids with errors, errors only, neither),
\* insert_single_transaction returns Ok: Ok(None) if some error message
\* contains "already exists", even when ids came with it; otherwise the
\* first id if ids are present and non-empty, and Ok(None) if there is none.
C5_InsertOneByShape ==
    (/\ Returned("insert_single_transaction")
     /\ response.val.transport
     /\ response.val.status = STATUS_OK
     /\ response.val.body.parsed)
        => LET body == response.val.body
               exists == /\ body.error.some
                         /\ \E k \in 1..Len(body.error.val) :
                               contains(body.error.val[k], ALREADY_EXISTS)
           IN  /\ returned.ok
               /\ returned.val =
                     IF exists THEN None
                     ELSE IF body.ids.some /\ body.ids.val # <<>>
                          THEN Some(body.ids.val[1])
                     ELSE None

\* C5 witness: an answer with ids and with errors, the second of which
\* contains "already exists": no new id
C5_Witness ==
    /\ Returned("insert_single_transaction")
    /\ response.val.transport
    /\ response.val.body.parsed
    /\ response.val.body.ids.some
    /\ Len(response.val.body.ids.val) = 2
    /\ response.val.body.error = Some(<<E_ALMOST, E_EXISTS>>)
    /\ returned.ok
    /\ returned.val = None

\* C6: the insert requests issued are the transactions of the batch, one
\* each and in batch order, whatever the answers; insert_transactions
\* returns Ok once the last one is answered, and no failure of the
\* invocation comes from an insert.
C6_OneRequestPerTransaction ==
    /\ pc = "insert" => InsertedBy(run) = SubSeq(transactions, 1, next - 1)
    /\ Returned("insert_transactions") =>
          /\ returned.ok
          /\ InsertedBy(run) = transactions
    /\ pc = "failed" =>
          returned.fn \notin {"insert_single_transaction", "insert_transactions"}

\* C6 witness: a batch of two whose first insert failed hard and whose
\* second was answered with a new id: two requests, and the id returned
C6_Witness ==
    /\ Returned("insert_transactions")
    /\ Len(transactions) = 2
    /\ Len(InsertRequestsOf(run)) = 2
    /\ ~InsertRequestsOf(run)[1].answer.ok
    /\ InsertRequestsOf(run)[2].answer.ok
    /\ Len(returned.val.ids) = 1

\* C7 as stated: the duplicate count that insert_transactions returns is
\* the number of answers of the call that carried an error message
\* containing "already exists"
C7_DuplicateCountIsExistingAnswers ==
    Returned("insert_transactions") => returned.val.existing = signals

(***************************************************************************)
(* SpecRuns: up to MaxRuns invocations on one account over the same        *)
(* ledger, which refuses a transaction whose external_id it holds          *)
(***************************************************************************)
\* the provider holds one page: no movement, one, or the two in either order
RunPages(p) ==
    IF p = 1
    THEN {Ok200(ArrayBody(data)) :
            data \in {<<>>, <<MV_USD>>, <<MV_CLP, MV_USD>>, <<MV_USD, MV_CLP>>}}
    ELSE {Ok200(ArrayBody(<<>>))}

RunReactions ==
    LedgerReactions(ledger, Pending, {TransportFailure},
                    {None, Some(<<NewId(ledger)>>)}, {None, Some(<<E_EXISTS>>)})

InitRuns ==
    /\ banks_to_sync = ONE_CHECKING
    /\ ledger = <<>>
    /\ Idle

NextRuns ==
    \/ run < MaxRuns /\ StartSync
    \/ FetchBalance(BALANCE_OK)
    \/ \E resp \in RunPages(page) : FetchPage(resp)
    \/ NormalizeMovements
    \/ CallInsertTransactions
    \/ \E reaction \in RunReactions : InsertSingle(reaction)
    \/ ReturnInsertTransactions
    \/ FinishMovements
    \/ \E reaction \in UpdateEchoed : UpdateAssetBalance(reaction)

SpecRuns == InitRuns /\ [][NextRuns]_vars

\* the movements fetch of the current invocation has returned its movements
FetchReturned ==
    /\ pages # <<>>
    /\ \A k \in 1..Len(pages) : IsPage(pages[k])
    /\ Last(pages).body.data = <<>>

\* the ledger holds, from an earlier invocation, the movement m
InsertedEarlier(m) ==
    \E k \in 1..Len(ledger) :
        /\ ledger[k].run < run
        /\ ledger[k].transaction.external_id = Some(m.id)

\* C1: no two transactions of the ledger have the same external_id, after
\* any number of invocations; and an invocation whose fetched movements were
\* all stored by earlier invocations stores nothing.
C1_NoDuplicateAcrossRuns ==
    /\ \A j, k \in 1..Len(ledger) :
          j # k => ledger[j].transaction.external_id
                      # ledger[k].transaction.external_id
    /\ (/\ FetchReturned
        /\ \A k \in 1..Len(ConcatPages(pages)) :
              InsertedEarlier(ConcatPages(pages)[k]))
          => \A k \in 1..Len(ledger) : ledger[k].run < run

\* C1 witness: a second invocation has ended after asking to insert the two
\* movements that the first one stored, and the ledger holds those two
C1_Witness ==
    /\ run = 2
    /\ pc = "done"
    /\ Len(InsertRequestsOf(2)) = 2
    /\ Len(ledger) = 2
    /\ \A k \in 1..Len(ledger) : ledger[k].run = 1
    /\ \A k \in 1..2 : InsertedEarlier(ConcatPages(pages)[k])

\* C2: when an invocation hands insert_transactions the batch that the
\* invocation before it handed over, and every answer carries an error that
\* contains "already exists", the call returns no inserted id and a
\* duplicate count equal to the size of the batch.
C2_SecondBatchAllDuplicates ==
    (/\ run > 1
     /\ Returned("insert_transactions")
     /\ InsertedBy(run - 1) = transactions
     /\ signals = Len(transactions))
        => returned.val = [ids |-> <<>>, existing |-> Len(transactions)]

\* C2 witness: the second call for a batch of two returned, each of its two
\* answers having carried "already exists"
C2_Witness ==
    /\ run = 2
    /\ Returned("insert_transactions")
    /\ Len(transactions) = 2
    /\ InsertedBy(1) = transactions
    /\ signals = 2
    /\ returned.val.existing = 2
    /\ returned.val.ids = <<>>

(***************************************************************************)
(* SpecUpdate: one invocation on skip-movements accounts, over every       *)
(* answer of the ledger to the balance update                              *)
(***************************************************************************)
ACCT_LINE_SKIP ==
    [name |-> "line", fintoc_account_id |-> "acc_5",
     lunch_money_asset_id |-> <<"3">>,
     account_type |-> "Savings", skip_movements |-> TRUE]

UPDATE_CONFIGS ==
    { <<Bank("b1", <<ACCT_CREDIT_SKIP>>)>>,
      <<Bank("b1", <<ACCT_LINE_SKIP, ACCT_CREDIT_SKIP>>)>> }

UpdateBalanceResponses ==
    {Ok200(BalanceBody(c, 30000, current, 100000)) :
        c \in {CLP, USD, EUR}, current \in {4500, -120}}

UpdateAnswers ==
    IF pc = "update" THEN UpdateReactions(PendingAsset, HardFailures) ELSE {}

InitUpdate ==
    /\ banks_to_sync \in UPDATE_CONFIGS
    /\ ledger = <<>>
    /\ Idle

NextUpdate ==
    \/ run = 0 /\ StartSync
    \/ \E resp \in UpdateBalanceResponses : FetchBalance(resp)
    \/ \E reaction \in UpdateAnswers : UpdateAssetBalance(reaction)

SpecUpdate == InitUpdate /\ [][NextUpdate]_vars

\* the last request was a balance update
UpdateAnswered == requests # <<>> /\ Last(requests).kind = "update"

\* the answer to the last balance update is a 200 that echoes an asset with
\* the balance sent and the currency sent in lower case
EchoVerified ==
    /\ response.val.transport
    /\ response.val.status = STATUS_OK
    /\ response.val.body.parsed
    /\ response.val.body.asset.balance = Last(requests).new_balance
    /\ response.val.body.asset.currency
          = to_lowercase(Last(requests).balance_currency)

\* C8: update_asset_balance returns Ok exactly when the PUT was answered
\* with status 200 and an asset whose balance is the balance sent and whose
\* currency is the currency sent in lower case; any other status, balance or
\* currency makes it return an error, which ends the invocation.
C8_UpdateVerifiesEcho ==
    UpdateAnswered =>
        /\ returned = [fn |-> "update_asset_balance", ok |-> EchoVerified]
        /\ ~EchoVerified => pc = "failed"

\* C8 witness: the ledger answered 200 with the balance sent and the
\* currency in upper case, and the update returned an error
C8_Witness ==
    /\ UpdateAnswered
    /\ response.val.transport
    /\ response.val.status = STATUS_OK
    /\ response.val.body.parsed
    /\ response.val.body.asset.balance = Last(requests).new_balance
    /\ response.val.body.asset.currency = Last(requests).balance_currency
    /\ response.val.body.asset.currency # Last(requests).asset.currency
    /\ returned = [fn |-> "update_asset_balance", ok |-> FALSE]
    /\ pc = "failed"

(***************************************************************************)
(* SpecChunks: one invocation on one account whose movements, up to        *)
(* MaxChunks full chunks and one more, come on one page; the ledger holds  *)
(* every third of them from before and answers each insert with a new id   *)
(* or with "already exists"                                                *)
(***************************************************************************)
\* full chunks in one account's sync (SpecChunks)
MaxChunks == 2

\* the k-th movement of the account
ChunkMovement(k) ==
    Movement("mov_" \o ToString(k), 10 * k, CLP, "other", T_CAFE, None, None)

\* the numbers of movements on the page: around the chunk boundaries
CHUNK_LENGTHS ==
    {0, 1, CHUNK_SIZE - 1, CHUNK_SIZE, CHUNK_SIZE + 1,
     MaxChunks * CHUNK_SIZE, MaxChunks * CHUNK_SIZE + 1}

ChunkPages(p) ==
    IF p = 1
    THEN {Ok200(ArrayBody([k \in 1..n |-> ChunkMovement(k)])) : n \in CHUNK_LENGTHS}
    ELSE {Ok200(ArrayBody(<<>>))}

\* the ledger's records of the movements 3, 6, 9, ..., stored before the
\* invocation
EVERY_THIRD_HELD ==
    [j \in 1..((MaxChunks * CHUNK_SIZE + 1) \div 3) |->
        [id |-> j,
         transaction |-> to_lunchmoney_transaction(ChunkMovement(3 * j), 7).val,
         run |-> 0]]

\* a held transaction is answered with "already exists", any other is stored
\* and answered with its id
ChunkReactions ==
    LedgerReactions(ledger, Pending, {}, {Some(<<NewId(ledger)>>)},
                    {None, Some(<<E_EXISTS>>)})

InitChunks ==
    /\ banks_to_sync = ONE_CHECKING
    /\ ledger \in {<<>>, EVERY_THIRD_HELD}
    /\ Idle

NextChunks ==
    \/ run = 0 /\ StartSync
    \/ FetchBalance(BALANCE_OK)
    \/ \E resp \in ChunkPages(page) : FetchPage(resp)
    \/ NormalizeMovements
    \/ CallInsertTransactions
    \/ \E reaction \in ChunkReactions : InsertSingle(reaction)
    \/ ReturnInsertTransactions
    \/ FinishMovements
    \/ \E reaction \in UpdateEchoed : UpdateAssetBalance(reaction)

SpecChunks == InitChunks /\ [][NextChunks]_vars

\* the ids that the answers to the requests reqs gave, in order
IdsAnswered(reqs) ==
    LET gave == SelectSeq(reqs, LAMBDA q : q.answer.ok /\ q.answer.val.some)
    IN  [k \in 1..Len(gave) |-> gave[k].answer.val.val]

\* the number of the requests reqs that were answered Ok(None)
NoneAnswered(reqs) ==
    Len(SelectSeq(reqs, LAMBDA q : q.answer.ok /\ ~q.answer.val.some))

\* the normalized transactions of the account, once its movements are fetched
AllNormalized == FilterMap(ConcatPages(pages), Current.lunch_money_asset_id)

\* C11: the batches handed to insert_transactions are consecutive runs of
\* the normalized transactions, of exactly 50 each but for a last one of 1
\* to 50: the transactions already requested, then the rest of the current
\* batch, then the transactions not yet in a batch, are the normalized
\* transactions in order; no batch starts before the one before it has
\* returned; and the account's inserted ids and existing count are those of
\* the batches that have returned, added up.
C11_ChunksOfFifty ==
    /\ pc = "insert" =>
          /\ Len(transactions) \in 1..50
          /\ lunchmoney_transactions # <<>> => Len(transactions) = 50
          /\ Len(InsertedBy(run)) = 50 * (calls - 1) + (next - 1)
          /\ SubSeq(InsertedBy(run), 1, 50 * (calls - 1))
                \o transactions \o lunchmoney_transactions = AllNormalized
          /\ synced_transactions
                = IdsAnswered(SubSeq(InsertRequestsOf(run), 1, 50 * (calls - 1)))
          /\ existing_count
                = NoneAnswered(SubSeq(InsertRequestsOf(run), 1, 50 * (calls - 1)))
    /\ pc = "chunks" =>
          /\ InsertedBy(run) \o lunchmoney_transactions = AllNormalized
          /\ lunchmoney_transactions # <<>> => Len(InsertedBy(run)) = 50 * calls
          /\ (\/ Len(InsertedBy(run)) > 50 * (calls - 1)
              \/ (calls = 0 /\ InsertedBy(run) = <<>>))
          /\ synced_transactions = IdsAnswered(InsertRequestsOf(run))
          /\ existing_count = NoneAnswered(InsertRequestsOf(run))

\* C11 witness: 101 transactions went in three batches, the last of one
\* transaction, and 33 of them existed
C11_Witness ==
    /\ pc = "update"
    /\ calls = 3
    /\ Len(transactions) = 1
    /\ Len(InsertedBy(run)) = 101
    /\ Len(synced_transactions) = 68
    /\ existing_count = 33

(***************************************************************************)
(* Properties of normalization within one invocation (Spec)                *)
(***************************************************************************)
\* the position of the account of the latest movements fetch: the one whose
\* answers pages holds
FetchedPos == Last(SelectSeq(requests, LAMBDA q : q.kind = "movements")).pos

\* the fetched movements whose currency normalization supports
SupportedFetched ==
    SelectSeq(ConcatPages(pages),
              LAMBDA m : to_uppercase(m.currency) \in {CLP, USD, EUR})

\* the external ids of the insert requests issued for the account at p
ExternalIdsInsertedAt(p) ==
    LET asked == SelectSeq(requests,
                    LAMBDA q : q.run = run /\ q.pos = p /\ q.kind = "insert")
    IN  [k \in 1..Len(asked) |-> asked[k].transaction.external_id]

\* the account at position p has no insert left to issue
InsertsOver(p) == p < pos \/ pc \in {"update", "done", "failed"}

\* no insert request carries a fetched movement of unsupported currency
UnsupportedNeverInserted ==
    (pages # <<>> /\ FetchReturned) =>
        \A k \in 1..Len(ConcatPages(pages)) :
            LET m == ConcatPages(pages)[k]
            IN  to_uppercase(m.currency) \notin {CLP, USD, EUR} =>
                   \A j \in 1..Len(requests) :
                       requests[j].kind = "insert" =>
                           requests[j].transaction.external_id # Some(m.id)

\* C12 as stated: whatever the account, the fetched movements of supported
\* currency are all submitted and the balance update is sent
C12_OthersAlwaysSubmitted ==
    /\ UnsupportedNeverInserted
    /\ (pages # <<>> /\ FetchReturned) =>
          /\ InsertsOver(FetchedPos) =>
                ExternalIdsInsertedAt(FetchedPos)
                   = [k \in 1..Len(SupportedFetched) |-> Some(SupportedFetched[k].id)]
          /\ SyncEnded(FetchedPos) =>
                Cardinality(RequestsOf(FetchedPos, "update")) = 1

\* C12 amended: a fetched movement of unsupported currency is in no insert
\* request; for an account whose configured asset id is an unsigned integer,
\* once its inserts are over the insert requests issued for it carry the
\* fetched movements of supported currency, each once and in fetched order,
\* and once its sync has ended one balance update was sent for it.
C12_OthersSubmittedWhenAssetIdValid ==
    /\ UnsupportedNeverInserted
    /\ (/\ pages # <<>>
        /\ FetchReturned
        /\ parse_u64(Worklist[FetchedPos].account.lunch_money_asset_id).ok) =>
          /\ InsertsOver(FetchedPos) =>
                ExternalIdsInsertedAt(FetchedPos)
                   = [k \in 1..Len(SupportedFetched) |-> Some(SupportedFetched[k].id)]
          /\ SyncEnded(FetchedPos) =>
                Cardinality(RequestsOf(FetchedPos, "update")) = 1

\* C12 witness: of the four movements fetched on two pages, two have an
\* unsupported currency; the other two were submitted and the balance
\* update was sent
C12_Witness ==
    /\ pc = "done"
    /\ FetchReturned
    /\ Len(ConcatPages(pages)) = 4
    /\ Len(SupportedFetched) = 2
    /\ Len(ExternalIdsInsertedAt(FetchedPos)) = 2
    /\ Cardinality(RequestsOf(FetchedPos, "update")) = 1

\* a movements page of the latest fetch was answered with a failure
FetchFailed == pages # <<>> /\ \E k \in 1..Len(pages) : ~IsPage(pages[k])

\* the summaries printed name only accounts before the one at position p
NoSummaryFrom(p) ==
    /\ Len(output) = p - 1
    /\ \A k \in 1..Len(output) :
          /\ output[k].bank = Worklist[k].bank
          /\ output[k].account = Worklist[k].account.name

\* a step of normalization or insertion does not make the invocation fail
NoFailureWhileInserting ==
    pc \in {"normalize", "chunks", "insert"} => pc' # "failed"

\* C13: after a failed movements fetch the invocation has failed and no
\* insert and no balance update was requested for the account; after a
\* balance update that was answered with a failure or with another balance
\* or currency the invocation has failed and no summary was printed for the
\* account; a failed invocation has failed in the balance fetch, the
\* movements fetch, the parse of the asset id or the balance update; and no
\* step of normalization or insertion makes the invocation fail.
C13_TerminalOnFirstFatalError ==
    /\ [](FetchFailed =>
            /\ pc = "failed"
            /\ RequestsOf(FetchedPos, "insert") = {}
            /\ RequestsOf(FetchedPos, "update") = {})
    /\ []((UpdateAnswered /\ ~EchoVerified) =>
            /\ pc = "failed"
            /\ NoSummaryFrom(Last(requests).pos))
    /\ [](pc = "failed" =>
            returned.fn \in {"fetch_fintoc_balance", "fetch_fintoc_movements",
                             "parse", "update_asset_balance"})
    /\ [][NoFailureWhileInserting]_vars

\* C13 witness: the second account's balance update was answered 200 with
\* another balance, after an insert of that account had failed: the
\* invocation failed with the first account's summary only
C13_Witness ==
    /\ pc = "failed"
    /\ UpdateAnswered
    /\ Last(requests).pos = 2
    /\ response.val.transport
    /\ response.val.status = STATUS_OK
    /\ response.val.body.parsed
    /\ response.val.body.asset.balance # Last(requests).new_balance
    /\ Len(output) = 1
    /\ \E k \in RequestsOf(2, "insert") : ~requests[k].answer.ok

\* the insert requests issued for the account at position p
InsertRequestsAt(p) ==
    SelectSeq(requests, LAMBDA q : q.run = run /\ q.pos = p /\ q.kind = "insert")

\* the numbers of transactions that a summary tells: the count it prints,
\* or 0 when it prints none
CountsTold(summary) ==
    {IF summary.existing_count.some THEN summary.existing_count.val ELSE 0}

\* C14 as stated: the summary of every account synced to its end tells the
\* number of transactions the ledger answered with a new id, the number
\* counted as existing, and the balance sent
C14_SummaryTellsInsertedAndExisting ==
    \A k \in 1..Len(output) :
        /\ Len(IdsAnswered(InsertRequestsAt(k))) \in CountsTold(output[k])
        /\ NoneAnswered(InsertRequestsAt(k)) \in CountsTold(output[k])
        /\ \E j \in RequestsOf(k, "update") :
              output[k].balance.amount = requests[j].new_balance

(***************************************************************************)
(* SpecBalance: one invocation on one skip-movements account of each       *)
(* type, over balance answers of every currency code and of every          *)
(* combination of the balance values                                       *)
(***************************************************************************)
\* the values of the available, current and limit fields
BALANCE_VALUES == {-7, 30000, 100000}

\* currency codes in upper, lower and mixed case, supported and not
CURRENCY_CODES ==
    {CLP, <<"c","l","p">>, USD, <<"u","s","d">>, <<"U","s","d">>, EUR, GBP,
     <<"X","X","Q">>}

\* skip-movements accounts of the three types; the asset id of the checking
\* one is empty
BALANCE_CONFIGS ==
    { <<Bank("b1", <<ACCT_SKIP_BAD_ID>>)>>,
      <<Bank("b1", <<ACCT_LINE_SKIP>>)>>,
      <<Bank("b1", <<ACCT_CREDIT_SKIP>>)>> }

BalanceAnswers ==
    {Ok200(BalanceBody(c, available, current, limit)) :
        c \in CURRENCY_CODES, available \in BALANCE_VALUES,
        current \in BALANCE_VALUES, limit \in BALANCE_VALUES}

InitBalance ==
    /\ banks_to_sync \in BALANCE_CONFIGS
    /\ ledger = <<>>
    /\ Idle

NextBalance ==
    \/ run = 0 /\ StartSync
    \/ \E resp \in BalanceAnswers : FetchBalance(resp)
    \/ \E reaction \in UpdateEchoed : UpdateAssetBalance(reaction)

SpecBalance == InitBalance /\ [][NextBalance]_vars

\* the balance requests issued
BalanceRequests == SelectSeq(requests, LAMBDA q : q.kind = "balance")

\* the account type of the account that request q was issued for
TypeOf(q) == Worklist[q.pos].account.account_type

\* the number of minor units in one unit of the currency of answer resp
ScaleOf(resp) ==
    IF to_uppercase(resp.body.account.currency) \in {USD, EUR} THEN 100 ELSE 1

\* C15: the balance that a successful balance fetch returns is, before the
\* division by the currency's scale, the current field for a checking or
\* savings account and limit minus available for a credit account (an
\* Amount is held in ten-thousandths); the answer of a checking or savings
\* account does not change with the available field, nor that of a credit
\* account with the current field.
C15_BalanceByAccountType ==
    \A k \in 1..Len(BalanceRequests) :
        LET q == BalanceRequests[k]
            fields == q.resp.body.account.balance
        IN  /\ q.answer.ok =>
                 q.answer.val.amount * ScaleOf(q.resp)
                    = 10000 * (IF TypeOf(q) \in {"Checking", "Savings"}
                               THEN fields.current
                               ELSE fields.limit - fields.available)
            /\ \A v \in BALANCE_VALUES :
                 fetch_fintoc_balance(
                     [q.resp EXCEPT !.body.account.balance =
                         IF TypeOf(q) = "Credit" THEN [@ EXCEPT !.current = v]
                         ELSE [@ EXCEPT !.available = v]],
                     TypeOf(q)) = q.answer

\* C15 witness: a credit account with limit 100000 and available 30000, in
\* CLP: the balance is 70000
C15_Witness ==
    \E k \in 1..Len(BalanceRequests) :
        LET q == BalanceRequests[k]
        IN  /\ TypeOf(q) = "Credit"
            /\ q.resp.body.account.currency = CLP
            /\ q.resp.body.account.balance.limit = 100000
            /\ q.resp.body.account.balance.available = 30000
            /\ q.answer.ok
            /\ q.answer.val.amount = 70000 * 10000


\* a movement of the amount and currency that balance request q reads,
\* normalized
NormalizedLike(q) ==
    to_lunchmoney_transaction(
        Movement("mov_1",
                 RawBalance(TypeOf(q), q.resp.body.account.balance),
                 q.resp.body.account.currency, "other", T_CAFE, None, None),
        7)

\* C16: on a well-formed 200 answer the balance fetch succeeds exactly when
\* normalization accepts the answer's currency code, whatever its letter
\* case, and then scales the balance as normalization scales an amount; it
\* fails for every code that normalization rejects.
C16_BalanceScalesAsNormalize ==
    \A k \in 1..Len(BalanceRequests) :
        LET q == BalanceRequests[k]
        IN  (q.resp.transport /\ q.resp.status = 200 /\ q.resp.body.parsed) =>
                /\ q.answer.ok <=> NormalizedLike(q).ok
                /\ q.answer.ok => q.answer.val.amount = NormalizedLike(q).val.amount


(***************************************************************************)
(* SpecNormalize: one invocation over accounts of asset ids 7 and 42,      *)
(* each receiving one movement; the movements vary in type, amount sign,   *)
(* counterparties, description, currency code and amount                   *)
(***************************************************************************)
T_BOB == <<"B","o","b">>

\* "COMPRA NACIONAL Cafe"
T_COMPRA_CAFE == PREFIX_ALTERNATIVES[2] \o <<" ">> \o T_CAFE

ACCT_SAVINGS ==
    [name |-> "savings", fintoc_account_id |-> "acc_5",
     lunch_money_asset_id |-> <<"7">>,
     account_type |-> "Savings", skip_movements |-> FALSE]

ACCT_CHECKING_42 ==
    [name |-> "second", fintoc_account_id |-> "acc_6",
     lunch_money_asset_id |-> <<"4", "2">>,
     account_type |-> "Checking", skip_movements |-> FALSE]

NORMALIZE_CONFIGS ==
    { <<Bank("b1", <<ACCT_CHECKING, ACCT_SAVINGS>>)>>,
      <<Bank("b1", <<ACCT_CHECKING>>), Bank("b2", <<ACCT_CHECKING_42>>)>> }

\* the sender_account and recipient_account values
SENDERS ==
    {None, Some(TransferAccount(T_ANA, Some([name |-> T_BCI]))),
     Some(TransferAccount(T_ANA, None))}

RECIPIENTS ==
    {None, Some(TransferAccount(T_BOB, Some([name |-> T_BCI]))),
     Some(TransferAccount(T_BOB, None))}

\* movements in CLP of every type, amount sign and pair of counterparties
PAYEE_MOVEMENTS ==
    {Movement("mov_1", amount, CLP, movement_type, description, sender, recipient) :
        amount \in {-5000, 0, 1250},
        movement_type \in {"transfer", "other"},
        description \in {T_CAFE, T_COMPRA_CAFE},
        sender \in SENDERS, recipient \in RECIPIENTS}

\* the raw amounts in minor units
RAW_AMOUNTS == {-123456, -12345, -100, -1, 0, 5, 100, 12345, 200000}

\* movements of every currency code and raw amount
AMOUNT_MOVEMENTS ==
    {Movement("mov_2", amount, currency, "other", T_CAFE, None, None) :
        amount \in RAW_AMOUNTS, currency \in CURRENCY_CODES}

\* movements that the second account of the invocation also receives
SECOND_MOVEMENTS ==
    {Movement("mov_1", 1250, CLP, "transfer", T_CAFE, sender, None) :
        sender \in SENDERS}
    \cup {Movement("mov_2", -12345, currency, "other", T_CAFE, None, None) :
            currency \in {USD, <<"U","s","d">>, GBP}}

NormalizePages(p, at) ==
    IF p = 1
    THEN {Ok200(ArrayBody(<<m>>)) :
            m \in IF at = 1 THEN PAYEE_MOVEMENTS \cup AMOUNT_MOVEMENTS
                  ELSE SECOND_MOVEMENTS}
    ELSE {Ok200(ArrayBody(<<>>))}

InitNormalize ==
    /\ banks_to_sync \in NORMALIZE_CONFIGS
    /\ ledger = <<>>
    /\ Idle

NextNormalize ==
    \/ run = 0 /\ StartSync
    \/ FetchBalance(BALANCE_OK)
    \/ \E resp \in NormalizePages(page, pos) : FetchPage(resp)
    \/ NormalizeMovements
    \/ CallInsertTransactions
    \/ \E reaction \in ChunkReactions : InsertSingle(reaction)
    \/ ReturnInsertTransactions
    \/ FinishMovements
    \/ \E reaction \in UpdateEchoed : UpdateAssetBalance(reaction)

SpecNormalize == InitNormalize /\ [][NextNormalize]_vars

\* the insert requests issued
InsertRequests == SelectSeq(requests, LAMBDA q : q.kind = "insert")

\* the fetches of a first page that holds a movement
FirstPages ==
    SelectSeq(requests, LAMBDA f : /\ f.kind = "movements"
                                   /\ f.page = 1
                                   /\ ReadPage(f.resp).ok
                                   /\ ReadPage(f.resp).val # <<>>)

\* the movement that the account of request q received
SourceOf(q) ==
    LET fetches == SelectSeq(FirstPages,
                             LAMBDA f : f.run = q.run /\ f.pos = q.pos)
    IN  ReadPage(fetches[1].resp).val[1]

\* the configured asset id of the account of request q
TargetOf(q) == parse_u64(Worklist[q.pos].account.lunch_money_asset_id).val

\* the transactions submitted for the account of request q
SubmittedFor(q) ==
    LET asked == SelectSeq(InsertRequests,
                           LAMBDA i : i.run = q.run /\ i.pos = q.pos)
    IN  [k \in 1..Len(asked) |-> asked[k].transaction]

\* C17: the transaction built from a movement carries the movement's id as
\* its external_id, the target asset id and the status "uncleared"; two
\* accounts of the same asset id that receive the same movement have the
\* same outcome, the same transaction or none, whatever was stored before.
C17_NormalizeIsAFunction ==
    /\ \A k \in 1..Len(InsertRequests) :
          LET q == InsertRequests[k]
          IN  /\ q.transaction.external_id = Some(SourceOf(q).id)
              /\ q.transaction.asset_id = Some(TargetOf(q))
              /\ q.transaction.status = "uncleared"
    /\ \A j, k \in 1..Len(FirstPages) :
          LET f == FirstPages[j]
              g == FirstPages[k]
          IN  (/\ SourceOf(f) = SourceOf(g)
               /\ TargetOf(f) = TargetOf(g)
               /\ InsertsOver(f.pos)
               /\ InsertsOver(g.pos)) =>
                  SubmittedFor(f) = SubmittedFor(g)

\* C17 witness: the second account of asset id 7 received the movement that
\* the first one received, when the ledger already held it, and the same
\* transaction was submitted for both
C17_Witness ==
    /\ Len(InsertRequests) = 2
    /\ InsertRequests[1].pos = 1
    /\ InsertRequests[2].pos = 2
    /\ SourceOf(InsertRequests[1]) = SourceOf(InsertRequests[2])
    /\ TargetOf(InsertRequests[1]) = TargetOf(InsertRequests[2])
    /\ InsertRequests[1].answer # InsertRequests[2].answer
    /\ InsertRequests[2].transaction.external_id = Some("mov_1")
    /\ InsertRequests[2].transaction.asset_id = Some(7)
    /\ InsertsOver(2)


\* the counterparty that the payee of movement m is taken from
Counterparty(m) == IF m.amount > 0 THEN m.sender_account ELSE m.recipient_account

\* C18: the payee of the transaction built from a transfer is taken from the
\* sender when the amount is positive and from the recipient otherwise: the
\* holder name followed by the institution name in parentheses, or the
\* holder name alone when there is no institution; when that counterparty is
\* absent, or the movement is no transfer, the payee is the cleaned
\* description.
C18_PayeeDerivation ==
    \A k \in 1..Len(InsertRequests) :
        LET m == SourceOf(InsertRequests[k])
            payee == InsertRequests[k].transaction.payee
            who == Counterparty(m)
        IN  /\ (m.movement_type = "transfer" /\ who.some /\ who.val.institution.some) =>
                  payee = Some(who.val.holder_name \o <<" ", "(">>
                                \o who.val.institution.val.name \o <<")">>)
            /\ (m.movement_type = "transfer" /\ who.some /\ ~who.val.institution.some) =>
                  payee = Some(who.val.holder_name)
            /\ (m.movement_type # "transfer" \/ ~who.some) =>
                  payee = Some(clean_description(m))

\* C18 witness: a transfer of amount 0 with both counterparties has the
\* recipient's "Bob (BCI)" for payee, and a transfer of positive amount
\* without sender has its description
C18_Witness ==
    /\ Len(InsertRequests) = 2
    /\ LET m == SourceOf(InsertRequests[1])
       IN  /\ m.movement_type = "transfer"
           /\ m.amount = 0
           /\ m.sender_account.some
           /\ m.description = T_COMPRA_CAFE
           /\ InsertRequests[1].transaction.payee
                = Some(<<"B","o","b"," ","(","B","C","I",")">>)
    /\ LET m == SourceOf(InsertRequests[2])
       IN  /\ m.movement_type = "transfer"
           /\ m.amount > 0
           /\ ~m.sender_account.some
           /\ InsertRequests[2].transaction.payee = Some(T_CAFE)


\* the rendered text: a "-" or nothing, the integer digits, ".", the decimals
SignOf(text) == IF text[1] = "-" THEN <<"-">> ELSE <<>>

Unsigned(text) == IF text[1] = "-" THEN Tail(text) ELSE text

PointAt(text) == CHOOSE i \in 1..Len(text) : text[i] = "."

IntegerDigits(text) == SubSeq(Unsigned(text), 1, PointAt(Unsigned(text)) - 1)

DecimalDigits(text) ==
    SubSeq(Unsigned(text), PointAt(Unsigned(text)) + 1, Len(Unsigned(text)))

AllDigits(text) == \A i \in 1..Len(text) : IsDigit(text[i])

\* the scale of a supported currency code
ScaleOfCode(currency) == IF to_uppercase(currency) = CLP THEN 1 ELSE 100

Supported(currency) == to_uppercase(currency) \in {CLP, USD, EUR}

\* C19: the amount of a transaction built from a movement of a supported
\* currency renders as raw/scale with exactly four decimal digits: a "-" for
\* a negative amount, integer digits without superfluous leading zero, a
\* point and four decimals, whose value times the scale is the raw amount;
\* for a movement of any other currency code no transaction is built.
C19_AmountRendersFourDecimals ==
    /\ \A k \in 1..Len(InsertRequests) :
          LET m == SourceOf(InsertRequests[k])
              text == fmt(InsertRequests[k].transaction.amount)
              whole == IntegerDigits(text)
              decimals == DecimalDigits(text)
          IN  /\ Supported(m.currency)
              /\ \E i \in 1..Len(text) : text[i] = "."
              /\ SignOf(text) = IF m.amount < 0 THEN <<"-">> ELSE <<>>
              /\ whole # <<>> /\ AllDigits(whole)
              /\ Len(whole) > 1 => whole[1] # "0"
              /\ Len(decimals) = 4 /\ AllDigits(decimals)
              /\ (DigitsValue(whole) * 10000 + DigitsValue(decimals))
                    * ScaleOfCode(m.currency)
                 = 10000 * (IF m.amount < 0 THEN 0 - m.amount ELSE m.amount)
    /\ \A k \in 1..Len(FirstPages) :
          (~Supported(SourceOf(FirstPages[k]).currency)
           /\ InsertsOver(FirstPages[k].pos)) =>
              SubmittedFor(FirstPages[k]) = <<>>

\* C19 witness: -12345 in "Usd" was submitted as "-123.4500"
C19_Witness ==
    \E k \in 1..Len(InsertRequests) :
        /\ SourceOf(InsertRequests[k]).amount = -12345
        /\ SourceOf(InsertRequests[k]).currency = <<"U","s","d">>
        /\ fmt(InsertRequests[k].transaction.amount)
             = <<"-","1","2","3",".","4","5","0","0">>


\* the requests of invocation r, in the order issued
RequestsOfRun(r) == SelectSeq(requests, LAMBDA q : q.run = r)

\* the places <<bank, account>> of the configured accounts
Slots ==
    UNION {{<<b, k>> : k \in 1..Len(banks_to_sync[b].accounts)} :
              b \in 1..Len(banks_to_sync)}

\* place s comes before place t in the configuration
Before(s, t) == s[1] < t[1] \/ (s[1] = t[1] /\ s[2] < t[2])

\* the n-th configured account, in configuration order
ConfiguredAt(n) ==
    LET s == CHOOSE s \in Slots : Cardinality({t \in Slots : Before(t, s)}) = n - 1
    IN  banks_to_sync[s[1]].accounts[s[2]]

\* the rank of a request kind in the sync of one account
Phase(kind) ==
    IF kind = "balance" THEN 1
    ELSE IF kind = "movements" THEN 2
    ELSE IF kind = "insert" THEN 3
    ELSE 4

\* the movements of supported currency that the fetches of log hold for the
\* account at p, in fetched order
SupportedFetchedAt(log, p) ==
    LET fetches == SelectSeq(log, LAMBDA q : /\ q.pos = p
                                             /\ q.kind = "movements"
                                             /\ IsPage(q.resp))
        fetched == ConcatPages([n \in 1..Len(fetches) |-> fetches[n].resp])
    IN  SelectSeq(fetched, LAMBDA m : Supported(m.currency))

\* the external ids of the inserts that log holds for the account at p
InsertedAt(log, p) ==
    LET asked == SelectSeq(log, LAMBDA q : q.pos = p /\ q.kind = "insert")
    IN  [k \in 1..Len(asked) |-> asked[k].transaction.external_id]

\* the requests of one invocation are in the order of the sync
Ordered(log) ==
    /\ log # <<>> =>
          /\ log[1].pos = 1
          /\ log[1].kind = "balance"
    /\ \A k \in 1..Len(log) :
          log[k].kind \in {"balance", "movements"} =>
              log[k].account = ConfiguredAt(log[k].pos).fintoc_account_id
    /\ \A k \in 1..(Len(log) - 1) :
          LET q == log[k]
              n == log[k + 1]
          IN  IF n.pos = q.pos
              THEN /\ Phase(q.kind) <= Phase(n.kind)
                   /\ n.kind # "balance"
                   /\ q.kind # "update"
                   /\ (q.kind = "balance" /\ n.kind = "movements") => n.page = 1
                   /\ (q.kind = "movements" /\ n.kind = "movements") =>
                          n.page = q.page + 1
                   /\ (q.kind = "movements" /\ n.kind # "movements") =>
                          /\ ReadPage(q.resp).ok
                          /\ ReadPage(q.resp).val = <<>>
              ELSE /\ n.pos = q.pos + 1
                   /\ q.kind = "update"
                   /\ n.kind = "balance"
    /\ \A p \in 1..Len(Worklist) :
          /\ Len(InsertedAt(log, p)) <= Len(SupportedFetchedAt(log, p))
          /\ \A k \in 1..Len(InsertedAt(log, p)) :
                InsertedAt(log, p)[k] = Some(SupportedFetchedAt(log, p)[k].id)

\* a step issues at most one request, which is answered within the step
OneRequestPerStep ==
    /\ Len(requests') <= Len(requests) + 1
    /\ SubSeq(requests', 1, Len(requests)) = requests

\* C20: the remote calls of an invocation are sequential: a step issues at
\* most one request; the accounts are taken in configuration order, the
\* first request of an account following the balance update of the one
\* before; within an account the order is the balance fetch, the movement
\* pages in increasing page number up to the empty page, the inserts in
\* the order of the fetched movements, and the balance update.
C20_RequestsAreSequential ==
    /\ [](\A r \in 1..run : Ordered(RequestsOfRun(r)))
    /\ [][OneRequestPerStep]_vars

\* C20 witness: an invocation over two accounts ended; the first account
\* had two movement pages and two inserts before its balance update
C20_Witness ==
    /\ pc = "done"
    /\ pos = 2
    /\ LET log == RequestsOfRun(run)
       IN  /\ Len(InsertedAt(log, 1)) = 2
           /\ Cardinality({k \in 1..Len(log) :
                             log[k].pos = 1 /\ log[k].kind = "movements"}) >= 2
           /\ \E k \in 1..Len(log) : log[k].pos = 1 /\ log[k].kind = "update"
           /\ \E k \in 1..Len(log) : log[k].pos = 2 /\ log[k].kind = "update"


(***************************************************************************)
(* SpecFetchLive: SpecFetch with a provider that answers every request     *)
(* (the loop awaits each answer) and has no movement past page MaxPages    *)
(***************************************************************************)
FetchPageAnswered == \E resp \in PageResponses(FETCH_MOVEMENTS, page) : FetchPage(resp)

SpecFetchLive == SpecFetch /\ WF_vars(FetchPageAnswered)

\* the answers to the movement requests issued, in order
PageAnswers ==
    LET asked == SelectSeq(requests, LAMBDA q : q.kind = "movements")
    IN  [k \in 1..Len(asked) |-> asked[k].resp]

\* an answer that is a page holding at least one movement
NonEmptyPage(resp) == IsPage(resp) /\ resp.body.data # <<>>

\* every answer but the last is a non-empty page: no request follows an
\* empty page, a failure or a malformed payload
NoRequestAfterEnd ==
    \A k \in 1..(Len(PageAnswers) - 1) : NonEmptyPage(PageAnswers[k])

\* the loop is left exactly on an answer that is no non-empty page, and
\* with success only on an empty page
LoopLeftOnEnd ==
    PageAnswers # <<>> =>
        /\ pc = "movements" <=> NonEmptyPage(Last(PageAnswers))
        /\ pc = "normalize" <=>
              (IsPage(Last(PageAnswers)) /\ Last(PageAnswers).body.data = <<>>)
        /\ pc = "failed" <=> ~IsPage(Last(PageAnswers))

\* C21: the fetch ends once the provider answers a page with an empty
\* array, a failure or a malformed payload, and issues no request after it;
\* of the successful answers only the empty page ends it; over a provider
\* that gives such an answer at the latest on page MaxPages + 1, the fetch
\* always ends.
C21_FetchTerminates ==
    /\ [](NoRequestAfterEnd /\ LoopLeftOnEnd)
    /\ (pc = "movements") ~> (pc \in {"normalize", "failed"})

\* C21 witness: a non-empty page, then a status other than 200: the fetch
\* ended in an error after two requests
C21_Witness ==
    /\ pc = "failed"
    /\ Len(PageAnswers) = 2
    /\ NonEmptyPage(PageAnswers[1])
    /\ PageAnswers[2].transport
    /\ PageAnswers[2].status = 500


(***************************************************************************)
(* SpecClean: one invocation on one account that receives one movement,    *)
(* over descriptions with and without the prefixes of clean_description    *)
(***************************************************************************)
\* "COMPRA INTERX": the last alternative with another character for its "."
T_COMPRA_INTERX == <<"C","O","M","P","R","A"," ","I","N","T","E","R","X">>

T_SUPERMARKET_X == <<"S","U","P","E","R","M","A","R","K","E","T"," ","X">>

\* how a description may start: a prefix in upper or lower case, or
\* "COMPRA INTERX"
HEADS ==
    {PREFIX_ALTERNATIVES[k] : k \in 1..Len(PREFIX_ALTERNATIVES)}
    \cup {to_lowercase(PREFIX_ALTERNATIVES[k]) : k \in 1..Len(PREFIX_ALTERNATIVES)}
    \cup {T_COMPRA_INTERX}

\* how it may go on
TAILS ==
    {<<>>, T_CAFE, <<" ">> \o T_CAFE, <<"\t">> \o T_CAFE,
     <<" ">> \o T_SUPERMARKET_X}

DESCRIPTIONS ==
    {head \o tail : head \in HEADS, tail \in TAILS}
    \cup {T_CAFE,
          <<" ">> \o T_COMPRA_CAFE,
          T_CAFE \o <<" ">> \o T_COMPRA_CAFE}

CleanPages(p) ==
    IF p = 1
    THEN {Ok200(ArrayBody(<<Movement("mov_1", -5000, CLP, "other", description,
                                     None, None)>>)) :
            description \in DESCRIPTIONS}
    ELSE {Ok200(ArrayBody(<<>>))}

InitClean ==
    /\ banks_to_sync = ONE_CHECKING
    /\ ledger = <<>>
    /\ Idle

NextClean ==
    \/ run = 0 /\ StartSync
    \/ FetchBalance(BALANCE_OK)
    \/ \E resp \in CleanPages(page) : FetchPage(resp)
    \/ NormalizeMovements
    \/ CallInsertTransactions
    \/ \E reaction \in ChunkReactions : InsertSingle(reaction)
    \/ ReturnInsertTransactions
    \/ FinishMovements
    \/ \E reaction \in UpdateEchoed : UpdateAssetBalance(reaction)

SpecClean == InitClean /\ [][NextClean]_vars

\* text starts with prefix, letter case apart
StartsWith(text, prefix) ==
    /\ Len(text) >= Len(prefix)
    /\ to_uppercase(SubSeq(text, 1, Len(prefix))) = prefix

\* the known prefixes that text starts with
PrefixesOf(text) ==
    {k \in 1..Len(PREFIX_ALTERNATIVES) : StartsWith(text, PREFIX_ALTERNATIVES[k])}

\* C22: the payee of a non-transfer movement is its description without the
\* known prefix it starts with, letter case apart, and without the
\* whitespace character after the prefix; a description that starts with
\* none of the four prefixes is the payee as it is; original_name is the
\* description as received.
C22_CleaningStripsKnownPrefix ==
    \A k \in 1..Len(InsertRequests) :
        LET description == SourceOf(InsertRequests[k]).description
            payee == InsertRequests[k].transaction.payee
        IN  /\ InsertRequests[k].transaction.original_name = Some(description)
            /\ PrefixesOf(description) = {} => payee = Some(description)
            /\ \A j \in PrefixesOf(description) :
                  LET n == Len(PREFIX_ALTERNATIVES[j])
                  IN  (Len(description) > n /\ description[n + 1] \in WHITESPACE) =>
                         payee = Some(SubSeq(description, n + 2, Len(description)))


\* the answers that the insert requests of the current call returned
CallAnswers ==
    LET asked == InsertRequestsOf(run)
    IN  [k \in 1..Len(asked) |-> asked[k].answer]

\* the number of answers of the current call that were a hard error
HardErrors == Len(SelectSeq(CallAnswers, LAMBDA answer : ~answer.ok))

\* C23: while insert_transactions runs, and when it returns, the number of
\* inserted ids plus the existing count plus the number of transactions
\* whose insert ended in a hard error is the number of transactions handled:
\* every transaction adds one to exactly one of the three, and ids plus
\* existing count never exceed the batch size.
C23_BatchAccounting ==
    /\ pc = "insert" =>
          /\ Len(inserted_ids) + chunk_existing + HardErrors = next - 1
          /\ Len(inserted_ids) + chunk_existing <= Len(transactions)
    /\ Returned("insert_transactions") =>
          /\ Len(returned.val.ids) + returned.val.existing + HardErrors
                = Len(transactions)
          /\ Len(returned.val.ids) + returned.val.existing <= Len(transactions)

\* C23 witness: a batch of two returned with one inserted id, no existing
\* transaction and one hard error
C23_Witness ==
    /\ Returned("insert_transactions")
    /\ Len(transactions) = 2
    /\ Len(returned.val.ids) = 1
    /\ returned.val.existing = 0
    /\ HardErrors = 1
    /\ CallAnswers[1].ok


\* C24: a page that holds a movement never ends the fetch, however few it
\* holds: the fetch goes on to request the next page number; a fetch that
\* returned at least one movement issued at least two requests.
C24_NonEmptyPageNeverEnds ==
    /\ \A k \in 1..Len(PageAnswers) :
          NonEmptyPage(PageAnswers[k]) =>
              IF k < Len(PageAnswers)
              THEN PagesRequested[k + 1] = PagesRequested[k] + 1
              ELSE pc = "movements" /\ page = PagesRequested[k] + 1
    /\ (Returned("fetch_fintoc_movements") /\ returned.ok /\ returned.val # <<>>) =>
          Len(PagesRequested) >= 2

\* C24 witness: one page of a single movement, far fewer than per_page, and
\* the fetch returned it after a second request
C24_Witness ==
    /\ Returned("fetch_fintoc_movements")
    /\ returned.ok
    /\ Len(returned.val) = 1
    /\ PagesRequested = <<1, 2>>
    /\ Len(PageAnswers[1].body.data) < PER_PAGE
    /\ PageAnswers[2].body.data = <<>>


\* the calls whose error cmd_sync_fintoc_movements returns with "?"
FATAL_CALLS ==
    {"fetch_fintoc_balance", "fetch_fintoc_movements", "parse",
     "update_asset_balance"}

\* the last call to return was one of these and returned an error
FatalError == returned # None /\ returned.fn \in FATAL_CALLS /\ ~returned.ok

\* after a fatal error no request is issued
NoRequestAfterFatalError == FatalError => requests' = requests

\* what the ledger stores is kept: a step adds to the stored transactions
\* or leaves them, and leaves every stored asset but the one it updates
LedgerEffectsKept ==
    /\ Len(ledger') >= Len(ledger)
    /\ SubSeq(ledger', 1, Len(ledger)) = ledger
    /\ \A id \in DOMAIN assets :
          /\ id \in DOMAIN assets'
          /\ assets'[id] # assets[id] =>
                /\ pc = "update"
                /\ parse_u64(Current.lunch_money_asset_id) = [ok |-> TRUE, val |-> id]

\* C25: a fatal error of one account's sync, from the balance fetch, the
\* movements fetch, the parse of the asset id or the balance update, ends
\* the invocation: every request issued is for that account or one before
\* it, and none is issued afterwards; the transactions that the inserts of
\* the invocation stored and the balances that the updates of the accounts
\* before it stored are still what the ledger holds.
C25_FatalErrorEndsInvocation ==
    /\ [](FatalError =>
            /\ pc = "failed"
            /\ \A k \in 1..Len(RequestsOfRun(run)) : RequestsOfRun(run)[k].pos <= pos
            /\ \A k \in 1..Len(RequestsOfRun(run)) :
                  LET q == RequestsOfRun(run)[k]
                  IN  /\ (q.kind = "insert" /\ q.answer.ok /\ q.answer.val.some) =>
                            \E j \in 1..Len(ledger) :
                                ledger[j].transaction = q.transaction
                      /\ (q.kind = "update" /\ q.pos < pos) =>
                            /\ q.asset.id.val \in DOMAIN assets
                            /\ assets[q.asset.id.val] = q.asset)
    /\ [][NoRequestAfterFatalError]_vars
    /\ [][LedgerEffectsKept]_vars

\* C25 witness: the balance update of the first of two accounts failed
\* after one of its transactions was inserted: the ledger holds the
\* transaction and no request was issued for the second account
C25_Witness ==
    /\ FatalError
    /\ returned.fn = "update_asset_balance"
    /\ pos = 1
    /\ Len(Worklist) = 2
    /\ Len(ledger) >= 1
    /\ \A k \in 1..Len(requests) : requests[k].pos = 1
    /\ \E k \in 1..Len(requests) :
          /\ requests[k].kind = "insert"
          /\ requests[k].answer.ok
          /\ requests[k].answer.val.some


\* the configured asset id of the account at position p, parsed
AssetIdAt(p) == parse_u64(Worklist[p].account.lunch_money_asset_id)

\* C26: every insert request carries the asset id configured for its
\* account, as a number, and the balance update of the account targets the
\* same id; for an account whose configured asset id is no unsigned integer
\* no insert and no balance update is requested, and its sync ends in an
\* error.
C26_AssetTargeting ==
    /\ \A k \in 1..Len(RequestsOfRun(run)) :
          LET q == RequestsOfRun(run)[k]
          IN  /\ q.kind = "insert" =>
                    /\ AssetIdAt(q.pos).ok
                    /\ q.transaction.asset_id = Some(AssetIdAt(q.pos).val)
              /\ q.kind = "update" =>
                    /\ AssetIdAt(q.pos).ok
                    /\ q.asset.id = Some(AssetIdAt(q.pos).val)
    /\ \A p \in 1..Len(Worklist) :
          (~AssetIdAt(p).ok /\ run > 0 /\ SyncEnded(p)) =>
              /\ pc = "failed"
              /\ pos = p
              /\ Len(output) < p

\* C26 witness: the account of asset id "7" had a transaction submitted for
\* asset 7 and its balance update sent for asset 7
C26_Witness ==
    /\ \E k \in 1..Len(requests) :
          /\ requests[k].kind = "insert"
          /\ requests[k].pos = 1
          /\ requests[k].transaction.asset_id = Some(7)
    /\ \E k \in 1..Len(requests) :
          /\ requests[k].kind = "update"
          /\ requests[k].pos = 1
          /\ requests[k].asset.id = Some(7)
    /\ Worklist[1].account.lunch_money_asset_id = <<"7">>
    /\ pc = "done"
    /\ pos = 2


(***************************************************************************)
(* SpecCounters: one invocation over two accounts, the second one with or  *)
(* without movements, over a ledger that may hold a transaction and may    *)
(* answer an insert without id and without error                           *)
(***************************************************************************)
COUNTER_CONFIGS ==
    { <<Bank("b1", <<ACCT_CHECKING, ACCT_SAVINGS>>)>>,
      <<Bank("b1", <<ACCT_CHECKING>>), Bank("b2", <<ACCT_SAVINGS>>)>>,
      <<Bank("b1", <<ACCT_CHECKING>>), Bank("b2", <<ACCT_LINE_SKIP>>)>> }

CounterPages(p) ==
    IF p = 1
    THEN {Ok200(ArrayBody(data)) : data \in {<<>>, <<MV_CLP>>, <<MV_CLP, MV_USD>>}}
    ELSE {Ok200(ArrayBody(<<>>))}

CounterReactions ==
    LedgerReactions(ledger, Pending, {}, {None, Some(<<NewId(ledger)>>)},
                    {None, Some(<<E_EXISTS>>)})

InitCounters ==
    /\ banks_to_sync \in COUNTER_CONFIGS
    /\ ledger \in {<<>>, <<HELD_CLP>>}
    /\ Idle

NextCounters ==
    \/ run = 0 /\ StartSync
    \/ FetchBalance(BALANCE_OK)
    \/ \E resp \in CounterPages(page) : FetchPage(resp)
    \/ NormalizeMovements
    \/ CallInsertTransactions
    \/ \E reaction \in CounterReactions : InsertSingle(reaction)
    \/ ReturnInsertTransactions
    \/ FinishMovements
    \/ \E reaction \in UpdateEchoed : UpdateAssetBalance(reaction)

SpecCounters == InitCounters /\ [][NextCounters]_vars

\* the number of insert requests issued for the account at position p that
\* insert_single_transaction answered with Ok(None)
ExistingAt(p) ==
    Len(SelectSeq(requests,
                  LAMBDA q : /\ q.run = run
                             /\ q.pos = p
                             /\ q.kind = "insert"
                             /\ q.answer.ok
                             /\ ~q.answer.val.some))

\* C27: the existing count that the summary of an account reports is the
\* number of transactions submitted during that account's sync that were
\* counted as existing, none of an earlier account of the invocation; the
\* count is zero when the account's movements are about to be fetched, and
\* the summary of a skip-movements account reports none.
C27_ExistingCountPerAccount ==
    /\ \A k \in 1..Len(output) :
          /\ output[k].account = Worklist[k].account.name
          /\ output[k].existing_count =
                IF ExistingAt(k) > 0 THEN Some(ExistingAt(k)) ELSE None
          /\ Worklist[k].account.skip_movements => output[k].existing_count = None
    /\ pc \in {"movements", "normalize"} => existing_count = 0
    /\ pc \in {"chunks", "update"} => existing_count = ExistingAt(pos)

\* C27 witness: the first account reported two existing transactions and
\* the second, which had one, reported one
C27_Witness ==
    /\ Len(output) = 2
    /\ output[1].existing_count = Some(2)
    /\ output[2].existing_count = Some(1)
    /\ ~Worklist[2].account.skip_movements

=============================================================================
